---------------------------- MODULE Spec2Model ----------------------------
(***************************************************************************)
(* State-machine model of the Nebula replication graph                     *)
(* (Source/Nebula/System/NebulaReplicationGraph.{h,cpp}): the orchestrator *)
(* UNebulaReplicationGraph, the precomputed-visibility grid node, the      *)
(* player-state frequency limiter and the per-connection always-relevant   *)
(* node.                                                                   *)
(*                                                                         *)
(* World coordinates are integers (centimetres).  Containers owned by the  *)
(* engine (actor lists, grid cells' dynamic lists) are multisets of actor  *)
(* ids.  A failed check()/array range check ends the process: the variable *)
(* fault leaves "none" and no handler runs afterwards.                     *)
(***************************************************************************)
EXTENDS Integers, Sequences, FiniteSets, TLC

\* ------------------------------------------------------------------ bounds
NumActors == 2          \* routable world actors 1..NumActors
NumConnections == 2     \* client connections 1..NumConnections
NumLevels == 2          \* streaming levels 1..NumLevels (0 is NAME_None)
NumPlayerStates == 7    \* APlayerState actors in the world
MaxTargetActors == 3    \* largest TargetActorsPerFrame tried
MaxForced == 1          \* player states with a pending ForceNetUpdate
MaxFrame == 5           \* last ReplicationFrameNum explored
GridFrames == 1         \* last ReplicationFrameNum explored with the grid and the router
ConnFrames == 3         \* last ReplicationFrameNum explored with the per-connection node
LevelFrames == 1        \* last ReplicationFrameNum explored with the streaming levels
MaxTrackedLevels == 2   \* longest AlwaysRelevantStreamingLevelsNeedingReplication
MaxStepsBelow == 2      \* X positions reach this many half cells below the bias
MaxStepsAbove == 2      \* X positions reach this many half cells above the bias
MaxStepsY == 2          \* Y positions reach this many half cells above the bias
NumClasses == 3         \* actor classes 1..NumClasses declared below AActor (class 0)
MaxClassSettings == 1   \* longest ClassSettings array of the project settings

\* ------------------------------------------------------- program constants
PVSSCellSize == 200
PVSSpatialBiasX == -600
PVSSpatialBiasY == -600
DefaultTargetActorsPerFrame == 2
DestructionInfoMaxDist == 30000

Actors == 1 .. NumActors
Connections == 1 .. NumConnections
Levels == 1 .. NumLevels
NAME_None == 0
NoActor == 0
Classes == 0 .. NumClasses
AActorClass == 0
NoClass == -1

\* Sampled world positions: half-cell steps around the spatial bias.
HalfCell == PVSSCellSize \div 2
XCoords == { PVSSpatialBiasX + k * HalfCell : k \in (0 - MaxStepsBelow) .. MaxStepsAbove }
YCoords == { PVSSpatialBiasY + k * HalfCell : k \in 0 .. MaxStepsY }
Positions == XCoords \X YCoords
WorldOrigin == <<0, 0>>

\* Where actors are when they are destroyed: near the origin, at the
\* destruction-notice distance, one cell beyond it.
DestroyPositions ==
    { << PVSSpatialBiasX, PVSSpatialBiasY >>, << DestructionInfoMaxDist, 0 >>,
      << DestructionInfoMaxDist + PVSSCellSize, 0 >> }

FaultKinds == { "assert", "undefined" }

\* Entity ids of the actors that are not routed through the graph.
PlayerStateIds == { 100 + i : i \in 1 .. NumPlayerStates }
ControllerOf(c) == 200 + c

VARIABLES
    \* the world (game layer)
    ActorLocation,              \* AActor::GetActorLocation(), per actor
    ActiveNetworkActors,        \* actor -> [active, cls, level, life]
    ValidPlayerStates,          \* player states a TActorIterator scan yields
    ForceNetUpdate,             \* player states whose forced-update flag is raised
    Viewer,                     \* connection -> [isNebulaPC, hasPlayerState]
    \* the graph and its global nodes
    WorldLocation,              \* FGlobalActorReplicationInfo::WorldLocation
    DynamicSpatializedActors,   \* PVS node: actor -> [tracked, cell]
    Grid,                       \* PVS node: dense array of columns of cells
    PVSLookupTable,             \* PVS node: cell -> list of visible cells (partial)
    AlwaysRelevantNode,         \* UReplicationGraphNode_ActorList: multiset
    GridNode,                   \* UReplicationGraphNode_GridSpatialization2D
    AlwaysRelevantStreamingLevelActors,  \* level name -> actor list
    DestructInfo,               \* destroyed actor -> [pending, position, bIgnoreDistanceCulling]
    \* the class hierarchy and the project settings (fixed while the server runs)
    SuperClass,                 \* UClass::GetSuperClass(), per class
    ClassCDO,                   \* class default object: the four relevancy traits
    CharacterClass,             \* ANebulaCharacter::StaticClass()
    ClassSettings,              \* settings entries with bAddClassRepInfoToMap: [cls, mapping]
    StartupClasses,             \* the classes TObjectIterator<UClass> yields at startup
    \* the graph's per-class tables
    bClassSettingsInitialised,  \* InitGlobalActorClassSettings has run
    ClassRepNodePolicyMap,      \* ClassRepNodePolicies: class -> policy (partial)
    ExplicitlySetClasses,       \* TArray<UClass*>
    ClassInfos,                 \* GlobalActorReplicationInfoMap's class infos (partial)
    Resolution,                 \* the GetClassNodeMapping call in progress: [root, cur, result]
    TargetActorsPerFrame,       \* frequency limiter: list capacity
    ReplicationActorLists,      \* frequency limiter: the bucket lists
    ForceNetUpdateReplicationActorList,
    \* per-connection nodes and bookkeeping
    LevelsNeedingReplication,   \* AlwaysRelevantStreamingLevelsNeedingReplication
    ReplicationActorList,       \* the per-connection always-relevant list
    bInitializedPlayerState,
    DormantOnConnection,        \* actors with bDormantOnConnection set
    ClientVisibleLevels,        \* levels the connection's client reported visible
    \* the replication tick
    ReplicationFrameNum,
    phase,                      \* "idle" between ticks, "gather" inside one
    Out,                        \* connection -> what this tick's gather returned
    fault                       \* [kind, at]: kind "none" while the process runs

worldVars == << ActorLocation, ActiveNetworkActors, ValidPlayerStates, ForceNetUpdate, Viewer >>
pvsVars == << WorldLocation, DynamicSpatializedActors, Grid, PVSLookupTable >>
routeVars == << AlwaysRelevantNode, GridNode, AlwaysRelevantStreamingLevelActors, DestructInfo >>
limiterVars == << TargetActorsPerFrame, ReplicationActorLists, ForceNetUpdateReplicationActorList >>
connVars == << LevelsNeedingReplication, ReplicationActorList, bInitializedPlayerState,
               DormantOnConnection, ClientVisibleLevels >>
tickVars == << ReplicationFrameNum, phase, Out >>
classWorldVars == << SuperClass, ClassCDO, CharacterClass, ClassSettings, StartupClasses >>
classTableVars == << ClassRepNodePolicyMap, ExplicitlySetClasses, ClassInfos >>
classVars == << classWorldVars, bClassSettingsInitialised, classTableVars, Resolution >>

vars == << worldVars, pvsVars, routeVars, limiterVars, connVars, tickVars, classVars, fault >>

NoFault == [kind |-> "none", at |-> ""]
Running == fault.kind = "none"

\* --------------------------------------------------------------- multisets
EmptyBag == [a \in Actors |-> 0]
BagAdd(b, a) == [b EXCEPT ![a] = @ + 1]
BagRemoveOne(b, a) == [b EXCEPT ![a] = IF @ > 0 THEN @ - 1 ELSE 0]
BagIn(b, a) == b[a] > 0


\* ------------------------------------------------- PVS node: cell indexing
\* (int32) cast of a floating-point quotient: truncation toward zero.
FloatToIntCastChecked(num, den) ==
    IF num >= 0 THEN num \div den ELSE 0 - ((0 - num) \div den)

\* The cell index PrepareForReplication and the gather compute for a location.
GridCellOf(loc) ==
    << FloatToIntCastChecked(loc[1] - PVSSpatialBiasX, PVSSCellSize),
       FloatToIntCastChecked(loc[2] - PVSSpatialBiasY, PVSSCellSize) >>

\* FActorCellInfo: CellIndex = {-1, -1}; IsValid() looks at X only.
InvalidCell == << -1, -1 >>
IsValid(cell) == cell[1] # -1

\* FCachedDynamicActorInfo of an actor that is not in DynamicSpatializedActors.
Untracked == [tracked |-> FALSE, cell |-> InvalidCell]

\* ------------------------------------------------- PVS node: dense grid
\* A cell pointer: nullptr (node = FALSE) or a UReplicationGraphNode_GridCell
\* holding its dynamic actors.
NullCell == [node |-> FALSE, dyn |-> EmptyBag]

PadTo(seq, n, fill) ==
    IF Len(seq) >= n THEN seq ELSE seq \o [i \in 1 .. (n - Len(seq)) |-> fill]

\* TArray::operator[] with a negative index: outside the array.
OutOfBounds(X, Y) == X < 0 \/ Y < 0

\* GetGridX(X): grows the outer array to X + 1 columns.
GetGridX(G, X) == PadTo(G, X + 1, << >>)

\* GetCell(X, Y): GetGridX(X), then grows column X to Y + 1 cells.
GetCell(G, X, Y) ==
    LET G1 == GetGridX(G, X)
    IN  [G1 EXCEPT ![X + 1] = PadTo(@, Y + 1, NullCell)]

\* GetCellNode(GetCell(X, Y)): creates the cell node when the pointer is null.
GetCellNode(G, X, Y) ==
    LET G1 == GetCell(G, X, Y)
    IN  [G1 EXCEPT ![X + 1][Y + 1].node = TRUE]

\* The grid after the resize GetCell performs before it faults on a negative Y.
GridAtFault(G, X, Y) == IF X < 0 THEN G ELSE GetGridX(G, X)

HasCell(G, X, Y) == X >= 0 /\ Y >= 0 /\ X < Len(G) /\ Y < Len(G[X + 1])
CellDyn(G, X, Y) == IF HasCell(G, X, Y) THEN G[X + 1][Y + 1].dyn ELSE EmptyBag

\* UReplicationGraphNode_GridCell::AddDynamicActor / RemoveDynamicActor
AddDynamicActor(G, X, Y, a) == [G EXCEPT ![X + 1][Y + 1].dyn = BagAdd(@, a)]
RemoveDynamicActor(G, X, Y, a) == [G EXCEPT ![X + 1][Y + 1].dyn = BagRemoveOne(@, a)]

\* ------------------------------------------- PVS node: add / remove / prepare
\* Node state threaded through a handler: the tracked map, the grid, the
\* cached world locations, and whether an array access left the array.
PVSState(map, G, wl) == [map |-> map, grid |-> G, wl |-> wl, oob |-> FALSE]

\* TMap::Emplace: a fresh FCachedDynamicActorInfo, its CellInfo invalid.
AddActorInternal_Dynamic(map, a) ==
    [map EXCEPT ![a] = [tracked |-> TRUE, cell |-> InvalidCell]]

\* Variant: the entity is dropped from the map, its cell left as it is.
RemoveFromMapOnly(s, a) ==
    IF ~ s.map[a].tracked THEN s ELSE [s EXCEPT !.map[a] = Untracked]

RemoveActorInternal_Dynamic(s, a) ==
    IF ~ s.map[a].tracked THEN s
    ELSE LET cell == s.map[a].cell
             X == cell[1]
             Y == cell[2]
         IN  IF ~ IsValid(cell)
             THEN [s EXCEPT !.map[a] = Untracked]
             ELSE IF OutOfBounds(X, Y)
             THEN [s EXCEPT !.grid = GridAtFault(s.grid, X, Y), !.oob = TRUE]
             ELSE LET G1 == GetCell(s.grid, X, Y)
                      G2 == IF G1[X + 1][Y + 1].node
                            THEN RemoveDynamicActor(G1, X, Y, a) ELSE G1
                  IN  [s EXCEPT !.grid = G2, !.map[a] = Untracked]

\* Variant: the loop places the actor by its position and leaves the cached
\* world location as it is.
PrepareActorKeepingWorldLocation(s, a) ==
    LET new == GridCellOf(ActorLocation[a])
        prev == s.map[a].cell
        place(G) == AddDynamicActor(GetCellNode(G, new[1], new[2]), new[1], new[2], a)
    IN  IF IsValid(prev)
        THEN IF prev # new
             THEN LET G1 == GetCell(s.grid, prev[1], prev[2])
                      G2 == IF G1[prev[1] + 1][prev[2] + 1].node
                            THEN RemoveDynamicActor(G1, prev[1], prev[2], a) ELSE G1
                  IN  IF OutOfBounds(new[1], new[2])
                      THEN [s EXCEPT !.grid = GridAtFault(G2, new[1], new[2]), !.oob = TRUE]
                      ELSE [s EXCEPT !.grid = place(G2), !.map[a].cell = new]
             ELSE s
        ELSE IF OutOfBounds(new[1], new[2])
             THEN [s EXCEPT !.grid = GridAtFault(s.grid, new[1], new[2]), !.oob = TRUE]
             ELSE [s EXCEPT !.grid = place(s.grid), !.map[a].cell = new]

\* The body of PrepareForReplication's loop for one tracked actor.
PrepareActor(s, a) ==
    LET loc == ActorLocation[a]
        new == GridCellOf(loc)
        prev == s.map[a].cell
        s0 == [s EXCEPT !.wl[a] = loc]
        place(G) == AddDynamicActor(GetCellNode(G, new[1], new[2]), new[1], new[2], a)
    IN  IF IsValid(prev)
        THEN IF prev # new
             THEN LET G1 == GetCell(s0.grid, prev[1], prev[2])
                      G2 == IF G1[prev[1] + 1][prev[2] + 1].node
                            THEN RemoveDynamicActor(G1, prev[1], prev[2], a) ELSE G1
                  IN  IF OutOfBounds(new[1], new[2])
                      THEN [s0 EXCEPT !.grid = GridAtFault(G2, new[1], new[2]), !.oob = TRUE]
                      ELSE [s0 EXCEPT !.grid = place(G2), !.map[a].cell = new]
             ELSE s0
        ELSE IF OutOfBounds(new[1], new[2])
             THEN [s0 EXCEPT !.grid = GridAtFault(s0.grid, new[1], new[2]), !.oob = TRUE]
             ELSE [s0 EXCEPT !.grid = place(s0.grid), !.map[a].cell = new]

\* Variant: the node does not ask for PrepareForReplication.
PVSPrepareSkipped(s) == s

\* for (auto& MapIt : DynamicSpatializedActors): actors in id order; the loop
\* ends where an access leaves the array.
RECURSIVE PVSPrepareFrom(_, _)
PVSPrepareFrom(s, a) ==
    IF a > NumActors \/ s.oob THEN s
    ELSE PVSPrepareFrom(IF s.map[a].tracked THEN PrepareActor(s, a) ELSE s, a + 1)

PVSPrepareForReplication(s) == PVSPrepareFrom(s, 1)

\* ------------------------------------------------- PVS node: lookup table
\* GenerateLookupTable: every key (0..6, 0..6) lists the cells (0,0)..(0,4).
TableKeys == (0 .. 6) \X (0 .. 6)
GenerateLookupTable == [key \in TableKeys |-> << <<0, 0>>, <<0, 1>>, <<0, 2>>, <<0, 3>>, <<0, 4>> >>]

\* Variant: only the first listed cell is gathered.
GatherFirstCellOnly(G, cells, out) ==
    IF cells = << >> THEN [grid |-> G, out |-> out]
    ELSE LET c == Head(cells)
             G1 == GetCellNode(G, c[1], c[2])
         IN  [grid |-> G1, out |-> [a \in Actors |-> out[a] + G1[c[1] + 1][c[2] + 1].dyn[a]]]

\* The loop over *VisibleCells: creates each listed cell and gathers it.
RECURSIVE GatherVisibleCells(_, _, _)
GatherVisibleCells(G, cells, out) ==
    IF cells = << >> THEN [grid |-> G, out |-> out]
    ELSE LET c == Head(cells)
             G1 == GetCellNode(G, c[1], c[2])
         IN  GatherVisibleCells(G1, Tail(cells),
                                [a \in Actors |-> out[a] + G1[c[1] + 1][c[2] + 1].dyn[a]])

\* Variant: a viewer whose cell has no entry gathers its own cell.
PVSGatherOwnCellOnMiss(G, wl, viewTarget) ==
    IF viewTarget = NoActor THEN [grid |-> G, out |-> EmptyBag]
    ELSE LET cell == GridCellOf(wl[viewTarget])
         IN  GatherVisibleCells(G, IF cell \in DOMAIN PVSLookupTable
                                   THEN PVSLookupTable[cell] ELSE << cell >>, EmptyBag)

\* GatherActorListsForConnection of the PVS node for a connection's ViewTarget.
PVSGather(G, wl, viewTarget) ==
    IF viewTarget = NoActor THEN [grid |-> G, out |-> EmptyBag]
    ELSE LET cell == GridCellOf(wl[viewTarget])
         IN  IF cell \in DOMAIN PVSLookupTable
             THEN GatherVisibleCells(G, PVSLookupTable[cell], EmptyBag)
             ELSE [grid |-> G, out |-> EmptyBag]


\* ------------------------------------------------- class routing policies
\* One actor class per routing policy; the class-to-policy table as
\* InitGlobalActorClassSettings leaves it.
RoutedClasses == { "Controller", "GameState", "Prop", "Projectile", "Pickup", "Character" }
ClassRepNodePolicies ==
    [cls \in RoutedClasses |->
        CASE cls = "Controller" -> "NotRouted"
          [] cls = "GameState"  -> "RelevantAllConnections"
          [] cls = "Prop"       -> "Spatialize_Static"
          [] cls = "Projectile" -> "Spatialize_Dynamic"
          [] cls = "Pickup"     -> "Spatialize_Dormancy"
          [] cls = "Character"  -> "PrecomputedVisibility"]

GetMappingPolicy(cls) ==
    IF cls \in DOMAIN ClassRepNodePolicies THEN ClassRepNodePolicies[cls] ELSE "NotRouted"

\* ------------------------------------------------- frequency limiter
\* The TActorIterator<APlayerState> scan, in a fixed world order (by id),
\* of the player states that are valid for the replication gather.
RECURSIVE ScanOrder(_)
ScanOrder(S) ==
    IF S = {} THEN << >>
    ELSE LET m == CHOOSE x \in S : \A y \in S : x <= y
         IN  << m >> \o ScanOrder(S \ {m})

\* Variant: a new list is started only once the current one exceeds the target.
AddToListsOver(lists, ps, target) ==
    LET ls == IF Len(lists[Len(lists)]) > target THEN Append(lists, << >>) ELSE lists
    IN  [ls EXCEPT ![Len(ls)] = Append(@, ps)]

\* The loop body of PrepareForReplication: start a new list when the current
\* one has reached TargetActorsPerFrame, then add the player state.
AddToLists(lists, ps, target) ==
    LET ls == IF Len(lists[Len(lists)]) >= target THEN Append(lists, << >>) ELSE lists
    IN  [ls EXCEPT ![Len(ls)] = Append(@, ps)]

RECURSIVE BuildLists(_, _, _)
BuildLists(lists, scan, target) ==
    IF scan = << >> THEN lists
    ELSE BuildLists(AddToLists(lists, Head(scan), target), Tail(scan), target)

\* Variant: the first list is created only when a player state is scanned.
LimiterPrepareWithoutFirstList(valid, target) ==
    IF valid = {} THEN << >> ELSE BuildLists(<< << >> >>, ScanOrder(valid), target)

\* ReplicationActorLists after PrepareForReplication: Reset, AddDefaulted, scan.
LimiterPrepare(valid, target) == BuildLists(<< << >> >>, ScanOrder(valid), target)

\* ForceNetUpdateReplicationActorList after PrepareForReplication: Reset only.
LimiterForceList(forced) == << >>

\* Variant: the gather hands out the first list in every tick.
LimiterGatherFirstList(lists, force, frame) ==
    << lists[1] >> \o (IF Len(force) > 0 THEN << force >> ELSE << >>)

\* GatherActorListsForConnection: the lists it appends to the output.
LimiterGather(lists, force, frame) ==
    << lists[(frame % Len(lists)) + 1] >> \o (IF Len(force) > 0 THEN << force >> ELSE << >>)

\* ------------------------------------------------- per-connection node
ConnectionOrderNum(c) == c - 1

\* NetConnection->ViewTarget: the connection's pawn, actor c, while it exists.
ViewTargetOf(c) ==
    IF c \in Actors /\ ActiveNetworkActors[c].active THEN c ELSE NoActor

\* PC->PlayerState of the connection's controller.
PlayerStateOf(c) == 100 + c

\* Variant: no throttle.
ReplicatePSEveryFrame(c, frame) == TRUE

\* bReplicatePS: the 50% throttle of the owning player's player state.
ReplicatePS(c, frame) == (ConnectionOrderNum(c) % 2) = (frame % 2)

\* Variant: the list is not emptied first.
ConnectionActorListKeepingLast(c, frame) ==
    ReplicationActorList[c]
    \cup { ControllerOf(c) }
    \cup (IF ViewTargetOf(c) # NoActor THEN { ViewTargetOf(c) } ELSE {})
    \cup (IF Viewer[c].isNebulaPC /\ ReplicatePS(c, frame) /\ Viewer[c].hasPlayerState
          THEN { PlayerStateOf(c) } ELSE {})

\* Variant: the list is built on top of what the other connections' nodes hold.
ConnectionActorListOverOthers(c, frame) ==
    UNION { ReplicationActorList[b] : b \in Connections \ { c } }
    \cup { ControllerOf(c) }
    \cup (IF ViewTargetOf(c) # NoActor THEN { ViewTargetOf(c) } ELSE {})
    \cup (IF Viewer[c].isNebulaPC /\ ReplicatePS(c, frame) /\ Viewer[c].hasPlayerState
          THEN { PlayerStateOf(c) } ELSE {})

\* The list the loop over Params.Viewers builds (one viewer per connection).
ConnectionActorList(c, frame) ==
    { ControllerOf(c) }
    \cup (IF ViewTargetOf(c) # NoActor THEN { ViewTargetOf(c) } ELSE {})
    \cup (IF Viewer[c].isNebulaPC /\ ReplicatePS(c, frame) /\ Viewer[c].hasPlayerState
          THEN { PlayerStateOf(c) } ELSE {})

\* TArray::RemoveAtSwap(Idx): the last element takes the removed one's place.
RemoveAtSwap(seq, idx) ==
    LET n == Len(seq)
    IN  [i \in 1 .. (n - 1) |-> IF i = idx THEN seq[n] ELSE seq[i]]

\* Variant: a level whose actors are all dormant stays in the tracking list.
GatherLevelKeepingDormant(st, idx, levelActors, dormant) ==
    LET lvl == st.levels[idx]
    IN  IF lvl \notin DOMAIN levelActors
        THEN [st EXCEPT !.levels = RemoveAtSwap(st.levels, idx)]
        ELSE IF levelActors[lvl] # {} /\ ~ (\A a \in levelActors[lvl] : a \in dormant)
        THEN [st EXCEPT !.out = Append(st.out, lvl)]
        ELSE st

\* One iteration of the loop over AlwaysRelevantStreamingLevelsNeedingReplication.
\* st = [levels, out]: the tracking list and the level lists appended so far.
GatherLevel(st, idx, levelActors, dormant) ==
    LET lvl == st.levels[idx]
    IN  IF lvl \notin DOMAIN levelActors
        THEN [st EXCEPT !.levels = RemoveAtSwap(st.levels, idx)]
        ELSE IF levelActors[lvl] # {}
        THEN IF \A a \in levelActors[lvl] : a \in dormant
             THEN [st EXCEPT !.levels = RemoveAtSwap(st.levels, idx)]
             ELSE [st EXCEPT !.out = Append(st.out, lvl)]
        ELSE st

RECURSIVE GatherLevelsFrom(_, _, _, _)
GatherLevelsFrom(st, idx, levelActors, dormant) ==
    IF idx < 1 THEN st
    ELSE GatherLevelsFrom(GatherLevel(st, idx, levelActors, dormant), idx - 1,
                          levelActors, dormant)

\* Variant: every level that has a non-empty list is gathered, tracked or not.
GatherLevelsEveryList(levels, levelActors, dormant) ==
    [levels |-> levels, out |-> ScanOrder({ l \in DOMAIN levelActors : levelActors[l] # {} })]

\* for (Idx = Num() - 1; Idx >= 0; --Idx)
GatherLevels(levels, levelActors, dormant) ==
    GatherLevelsFrom([levels |-> levels, out |-> << >>], Len(levels), levelActors, dormant)


\* ------------------------------------------------- orchestrator: routing
\* The node state a routing handler reads and writes.
GraphState ==
    [map |-> DynamicSpatializedActors, grid |-> Grid, wl |-> WorldLocation,
     ar |-> AlwaysRelevantNode, gridNode |-> GridNode,
     levelActors |-> AlwaysRelevantStreamingLevelActors,
     oob |-> FALSE, checkFailed |-> FALSE, bIgnoreDistanceCulling |-> FALSE]

\* Variant: the actor is added to every level's list.
LevelListAddAll(levelActors, lvl, a) ==
    [l \in DOMAIN levelActors \cup {lvl} |->
        (IF l \in DOMAIN levelActors THEN levelActors[l] ELSE {}) \cup {a}]

\* TMap::FindOrAdd(level) followed by ConditionalAdd(actor).
LevelListAdd(levelActors, lvl, a) ==
    [l \in DOMAIN levelActors \cup {lvl} |->
        IF l = lvl
        THEN (IF l \in DOMAIN levelActors THEN levelActors[l] ELSE {}) \cup {a}
        ELSE levelActors[l]]

RouteAddNetworkActorToNodes(g, a, cls, lvl) ==
    LET Policy == GetMappingPolicy(cls)
    IN  CASE Policy = "NotRouted" -> g
          [] Policy = "PrecomputedVisibility" ->
                [g EXCEPT !.map = AddActorInternal_Dynamic(g.map, a)]
          [] Policy = "RelevantAllConnections" ->
                IF lvl = NAME_None
                THEN [g EXCEPT !.ar = BagAdd(g.ar, a)]
                ELSE [g EXCEPT !.levelActors = LevelListAdd(g.levelActors, lvl, a)]
          [] Policy = "Spatialize_Static" ->
                [g EXCEPT !.gridNode.static = @ \cup {a}]
          [] Policy = "Spatialize_Dynamic" ->
                [g EXCEPT !.gridNode.dynamic = @ \cup {a}]
          [] Policy = "Spatialize_Dormancy" ->
                [g EXCEPT !.gridNode.dormant = @ \cup {a}]

\* FindChecked(level): check() fails when the level has no list; else RemoveFast.
LevelListRemove(g, lvl, a) ==
    IF lvl \notin DOMAIN g.levelActors
    THEN [g EXCEPT !.checkFailed = TRUE]
    ELSE [g EXCEPT !.levelActors[lvl] = @ \ {a}]

\* PVSGridNode->RemoveActor_Dynamic on the node's part of the graph state.
RouteRemovePVS(g, a) ==
    LET s == RemoveActorInternal_Dynamic(PVSState(g.map, g.grid, g.wl), a)
    IN  [g EXCEPT !.map = s.map, !.grid = s.grid, !.oob = s.oob]

RouteRemoveNetworkActorToNodes(g, a, cls, lvl) ==
    LET Policy == GetMappingPolicy(cls)
    IN  CASE Policy = "NotRouted" -> g
          [] Policy = "PrecomputedVisibility" -> RouteRemovePVS(g, a)
          [] Policy = "RelevantAllConnections" ->
                LET r == IF lvl = NAME_None
                         THEN [g EXCEPT !.ar = BagRemoveOne(g.ar, a)]
                         ELSE LevelListRemove(g, lvl, a)
                IN  IF r.checkFailed
                    THEN r
                    ELSE [r EXCEPT !.bIgnoreDistanceCulling = TRUE]
          [] Policy = "Spatialize_Static" ->
                [g EXCEPT !.gridNode.static = @ \ {a}]
          [] Policy = "Spatialize_Dynamic" ->
                [g EXCEPT !.gridNode.dynamic = @ \ {a}]
          [] Policy = "Spatialize_Dormancy" ->
                [g EXCEPT !.gridNode.dormant = @ \ {a}]

\* Writes a handler's resulting graph state back; an access outside an array
\* or a failed check() ends the process in handler `at`.
CommitGraph(g, at) ==
    /\ DynamicSpatializedActors' = g.map
    /\ Grid' = g.grid
    /\ AlwaysRelevantNode' = g.ar
    /\ GridNode' = g.gridNode
    /\ AlwaysRelevantStreamingLevelActors' = g.levelActors
    /\ IF g.oob \/ g.checkFailed
       THEN \E k \in FaultKinds : fault' = [kind |-> k, at |-> at]
       ELSE fault' = fault

\* ------------------------------------------------- class policies and settings
\* The routing policies, in the order of the enumeration.
EClassRepNodeMapping ==
    << "NotRouted", "RelevantAllConnections", "Spatialize_Static", "Spatialize_Dynamic",
       "Spatialize_Dormancy", "PrecomputedVisibility" >>
ClassNodeMappings == { EClassRepNodeMapping[i] : i \in DOMAIN EClassRepNodeMapping }
MappingValue(mapping) == CHOOSE i \in DOMAIN EClassRepNodeMapping : EClassRepNodeMapping[i] = mapping
IsSpatialized(mapping) == MappingValue(mapping) >= MappingValue("Spatialize_Static")

\* Class default objects. The traits of a class that is not replicated are
\* never compared with anything once GetIsReplicated() has differed or has
\* ended the resolution, so one such object stands for all of them.
NotReplicatedCDO ==
    [bReplicates |-> FALSE, bAlwaysRelevant |-> FALSE, bOnlyRelevantToOwner |-> FALSE,
     bNetUseOwnerRelevancy |-> FALSE]
ClassCDOs ==
    { NotReplicatedCDO } \cup
    [bReplicates : { TRUE }, bAlwaysRelevant : BOOLEAN, bOnlyRelevantToOwner : BOOLEAN,
     bNetUseOwnerRelevancy : BOOLEAN]

\* UClass::IsChildOf: the class itself or one of its ancestors is `base`.
RECURSIVE IsChildOf(_, _)
IsChildOf(c, base) == c # NoClass /\ (c = base \/ IsChildOf(SuperClass[c], base))

\* Variant: bNetUseOwnerRelevancy is not looked at.
ShouldSpatializeIgnoringOwnerRelevancy(cdo) ==
    cdo.bReplicates /\ ~ (cdo.bAlwaysRelevant \/ cdo.bOnlyRelevantToOwner)

ShouldSpatialize(cdo) ==
    cdo.bReplicates
        /\ ~ (cdo.bAlwaysRelevant \/ cdo.bOnlyRelevantToOwner \/ cdo.bNetUseOwnerRelevancy)

\* TClassMap::Set / TMap::Add on a partial map.
MapSet(map, key, value) ==
    [k \in DOMAIN map \cup { key } |-> IF k = key THEN value ELSE map[k]]
EmptyMap == [k \in {} |-> NoClass]

\* Variant: the policy is always computed from the class's own traits.
GetClassNodeMappingOwnTraits(policies, c) ==
    IF c = NoClass THEN "NotRouted"
    ELSE IF c \in DOMAIN policies THEN policies[c]
    ELSE IF IsChildOf(c, CharacterClass) THEN "PrecomputedVisibility"
    ELSE IF ~ ClassCDO[c].bReplicates THEN "NotRouted"
    ELSE IF ShouldSpatialize(ClassCDO[c]) THEN "Spatialize_Dynamic"
    ELSE IF ClassCDO[c].bAlwaysRelevant /\ ~ ClassCDO[c].bOnlyRelevantToOwner
         THEN "RelevantAllConnections"
    ELSE "NotRouted"

\* Variant: the class's own table entry is not looked up.
RECURSIVE GetClassNodeMappingWithoutTable(_, _)
GetClassNodeMappingWithoutTable(policies, c) ==
    IF c = NoClass THEN "NotRouted"
    ELSE IF IsChildOf(c, CharacterClass) THEN "PrecomputedVisibility"
    ELSE IF ~ ClassCDO[c].bReplicates THEN "NotRouted"
    ELSE IF SuperClass[c] # NoClass /\ ClassCDO[SuperClass[c]] = ClassCDO[c]
         THEN GetClassNodeMappingWithoutTable(policies, SuperClass[c])
    ELSE IF ShouldSpatialize(ClassCDO[c]) THEN "Spatialize_Dynamic"
    ELSE IF ClassCDO[c].bAlwaysRelevant /\ ~ ClassCDO[c].bOnlyRelevantToOwner
         THEN "RelevantAllConnections"
    ELSE "NotRouted"

\* Variant: the replication test comes before the character test.
RECURSIVE GetClassNodeMappingReplicationFirst(_, _)
GetClassNodeMappingReplicationFirst(policies, c) ==
    IF c = NoClass THEN "NotRouted"
    ELSE IF c \in DOMAIN policies THEN policies[c]
    ELSE IF ~ ClassCDO[c].bReplicates THEN "NotRouted"
    ELSE IF IsChildOf(c, CharacterClass) THEN "PrecomputedVisibility"
    ELSE IF SuperClass[c] # NoClass /\ ClassCDO[SuperClass[c]] = ClassCDO[c]
         THEN GetClassNodeMappingReplicationFirst(policies, SuperClass[c])
    ELSE IF ShouldSpatialize(ClassCDO[c]) THEN "Spatialize_Dynamic"
    ELSE IF ClassCDO[c].bAlwaysRelevant /\ ~ ClassCDO[c].bOnlyRelevantToOwner
         THEN "RelevantAllConnections"
    ELSE "NotRouted"

\* GetClassNodeMapping, reading the policy table `policies`.
RECURSIVE GetClassNodeMapping(_, _)
GetClassNodeMapping(policies, c) ==
    IF c = NoClass THEN "NotRouted"
    ELSE IF c \in DOMAIN policies THEN policies[c]
    ELSE IF IsChildOf(c, CharacterClass) THEN "PrecomputedVisibility"
    ELSE IF ~ ClassCDO[c].bReplicates THEN "NotRouted"
    ELSE IF SuperClass[c] # NoClass /\ ClassCDO[SuperClass[c]] = ClassCDO[c]
         THEN GetClassNodeMapping(policies, SuperClass[c])
    ELSE IF ShouldSpatialize(ClassCDO[c]) THEN "Spatialize_Dynamic"
    ELSE IF ClassCDO[c].bAlwaysRelevant /\ ~ ClassCDO[c].bOnlyRelevantToOwner
         THEN "RelevantAllConnections"
    ELSE "NotRouted"

\* One invocation of GetClassNodeMapping for class c: the policy it returns
\* itself, or the class it calls itself for.
Pending == "Pending"
NoResolution == [root |-> NoClass, cur |-> NoClass, result |-> "None"]
Returns(mapping) == [recurse |-> FALSE, value |-> mapping, into |-> NoClass]
Recurses(c) == [recurse |-> TRUE, value |-> Pending, into |-> c]

\* Variant: the invocation calls itself for the same class.
GetClassNodeMappingFrameSameClass(policies, c) ==
    IF c = NoClass THEN Returns("NotRouted")
    ELSE IF c \in DOMAIN policies THEN Returns(policies[c])
    ELSE IF IsChildOf(c, CharacterClass) THEN Returns("PrecomputedVisibility")
    ELSE IF ~ ClassCDO[c].bReplicates THEN Returns("NotRouted")
    ELSE IF SuperClass[c] # NoClass /\ ClassCDO[SuperClass[c]] = ClassCDO[c]
         THEN Recurses(c)
    ELSE IF ShouldSpatialize(ClassCDO[c]) THEN Returns("Spatialize_Dynamic")
    ELSE IF ClassCDO[c].bAlwaysRelevant /\ ~ ClassCDO[c].bOnlyRelevantToOwner
         THEN Returns("RelevantAllConnections")
    ELSE Returns("NotRouted")

GetClassNodeMappingFrame(policies, c) ==
    IF c = NoClass THEN Returns("NotRouted")
    ELSE IF c \in DOMAIN policies THEN Returns(policies[c])
    ELSE IF IsChildOf(c, CharacterClass) THEN Returns("PrecomputedVisibility")
    ELSE IF ~ ClassCDO[c].bReplicates THEN Returns("NotRouted")
    ELSE IF SuperClass[c] # NoClass /\ ClassCDO[SuperClass[c]] = ClassCDO[c]
         THEN Recurses(SuperClass[c])
    ELSE IF ShouldSpatialize(ClassCDO[c]) THEN Returns("Spatialize_Dynamic")
    ELSE IF ClassCDO[c].bAlwaysRelevant /\ ~ ClassCDO[c].bOnlyRelevantToOwner
         THEN Returns("RelevantAllConnections")
    ELSE Returns("NotRouted")

\* Variant: registration computes the policy from traits and ancestry alone.
RegisterClassRepNodeMappingFromTraits(policies, c) ==
    MapSet(policies, c, GetClassNodeMapping(EmptyMap, c))

RegisterClassRepNodeMapping(policies, c) == MapSet(policies, c, GetClassNodeMapping(policies, c))

AddClassRepInfo(policies, c, mapping) == MapSet(policies, c, mapping)

\* ClassRepNodePolicies.Get with InitNewElement installed: a class without an
\* entry gets the one GetClassNodeMapping computes.
ClassRepNodePoliciesGet(policies, c) ==
    IF c \in DOMAIN policies THEN policies ELSE MapSet(policies, c, GetClassNodeMapping(policies, c))

\* The first loop of InitGlobalActorClassSettings over the settings entries.
RECURSIVE AddClassRepInfos(_, _, _)
AddClassRepInfos(policies, settings, i) ==
    IF i > Len(settings) THEN policies
    ELSE AddClassRepInfos(AddClassRepInfo(policies, settings[i].cls, settings[i].mapping),
                          settings, i + 1)

\* Variant: the loop over the classes registers no policy.
RegisterClassRepNodeMappingsSkipped(policies, order, i) == policies

\* The loop over TObjectIterator<UClass>, which yields the replicated classes
\* in the order `order`.
RECURSIVE RegisterClassRepNodeMappings(_, _, _)
RegisterClassRepNodeMappings(policies, order, i) ==
    IF i > Len(order) THEN policies
    ELSE RegisterClassRepNodeMappings(RegisterClassRepNodeMapping(policies, order[i]),
                                      order, i + 1)

\* Per-class replication settings: whose class default object the cull
\* distance and the replication period were taken from (NoClass: the default
\* value), and whether the settings are the ones written for the character.
InitClassReplicationInfo(c, Spatialize) ==
    [CullDistanceOf |-> IF Spatialize THEN c ELSE NoClass, PeriodOf |-> c,
     bCharacterSettings |-> FALSE]
CharacterClassRepInfo ==
    [CullDistanceOf |-> CharacterClass, PeriodOf |-> NoClass, bCharacterSettings |-> TRUE]

ClassTables(policies, explicit, infos) == [policies |-> policies, explicit |-> explicit, infos |-> infos]

\* ConditionalInitClassReplicationInfo returns false for a class that is, or
\* descends from, an explicitly set class.
\* Variant: no class counts as explicitly set.
IsExplicitlySetNever(explicit, c) == FALSE

IsExplicitlySet(explicit, c) == \E i \in DOMAIN explicit : IsChildOf(c, explicit[i])

RegisterClassReplicationInfo(t, c) ==
    IF IsExplicitlySet(t.explicit, c)
    THEN t
    ELSE LET policies == ClassRepNodePoliciesGet(t.policies, c)
         IN  [t EXCEPT !.policies = policies,
                       !.infos = MapSet(@, c, InitClassReplicationInfo(c, IsSpatialized(policies[c])))]

RECURSIVE RegisterClassReplicationInfos(_, _, _)
RegisterClassReplicationInfos(t, order, i) ==
    IF i > Len(order) THEN t
    ELSE RegisterClassReplicationInfos(RegisterClassReplicationInfo(t, order[i]), order, i + 1)

\* The class info the engine hands out for a class whose lazy initialisation
\* declined: the one of its nearest ancestor that has one.
RECURSIVE InheritedClassInfo(_, _)
InheritedClassInfo(infos, c) ==
    IF c = NoClass THEN InitClassReplicationInfo(NoClass, FALSE)
    ELSE IF c \in DOMAIN infos THEN infos[c]
    ELSE InheritedClassInfo(infos, SuperClass[c])

\* The orders in which an iteration can yield the classes of S.
Orders(S) ==
    { order \in [1 .. Cardinality(S) -> S] : \A i, j \in DOMAIN order : order[i] = order[j] => i = j }

\* The class tables of a graph that was just constructed.
ConstructedClassTables == ClassTables(EmptyMap, << >>, EmptyMap)

\* The whole of InitGlobalActorClassSettings on the class tables t.
ClassSettingsInitialised(t, order) ==
    LET configured == AddClassRepInfos(t.policies, ClassSettings, 1)
        registered == RegisterClassRepNodeMappings(configured, order, 1)
        explicit == << CharacterClass, CharacterClass >>
        infos == MapSet(t.infos, CharacterClass, CharacterClassRepInfo)
    IN  RegisterClassReplicationInfos(ClassTables(registered, explicit, infos), order, 1)

\* The replicated classes the startup iteration sees.
AllReplicatedClasses == { c \in StartupClasses : ClassCDO[c].bReplicates }

CommitClassTables(t) ==
    /\ ClassRepNodePolicyMap' = t.policies
    /\ ExplicitlySetClasses' = t.explicit
    /\ ClassInfos' = t.infos

\* ------------------------------------------------- destruction infos
\* InitGlobalActorClassSettings: the limit the engine compares a destroyed
\* actor's squared distance with.
DestructInfoMaxDistanceSquared == DestructionInfoMaxDist * DestructionInfoMaxDist

NoDestructInfo == [pending |-> FALSE, position |-> WorldOrigin, bIgnoreDistanceCulling |-> FALSE]

\* The destruction info of an actor destroyed at `pos`, after the removal
\* handler that produced graph state g.
DestructInfoOf(g, pos) ==
    [pending |-> TRUE, position |-> pos, bIgnoreDistanceCulling |-> g.bIgnoreDistanceCulling]

\* ------------------------------------------------- the world's events
HomePosition == << PVSSpatialBiasX, PVSSpatialBiasY >>
Inactive(life) == [active |-> FALSE, cls |-> "", level |-> NAME_None, life |-> life]

\* Between two ticks, and no call of the game thread is in progress.
Idle == Running /\ phase = "idle" /\ Resolution = NoResolution

\* An actor is spawned at `pos`; the engine routes it (AddNetworkActor). An
\* actor the engine forgot in a world reset is the same object when it is
\* added again: it has the class and streaming level it had.
AddNetworkActor(a, cls, lvl, pos) ==
    /\ Idle
    /\ ~ ActiveNetworkActors[a].active
    /\ ActiveNetworkActors[a].life = "reset"
            => (cls = ActiveNetworkActors[a].cls /\ lvl = ActiveNetworkActors[a].level)
    /\ ActorLocation' = [ActorLocation EXCEPT ![a] = pos]
    /\ ActiveNetworkActors' = [ActiveNetworkActors EXCEPT ![a] =
            [active |-> TRUE, cls |-> cls, level |-> lvl, life |-> "added"]]
    /\ CommitGraph(RouteAddNetworkActorToNodes(GraphState, a, cls, lvl),
                   "RouteAddNetworkActorToNodes")
    /\ DestructInfo' = [DestructInfo EXCEPT ![a] = NoDestructInfo]
    /\ UNCHANGED << ValidPlayerStates, ForceNetUpdate, Viewer, WorldLocation,
                    limiterVars, connVars, tickVars >>
    /\ UNCHANGED << classVars, PVSLookupTable, ClientVisibleLevels >>

\* An actor is destroyed; the engine routes its removal with the class and
\* streaming level it was added with, then drops its global replication info.
RemoveNetworkActor(a) ==
    /\ Idle
    /\ ActiveNetworkActors[a].active
    /\ LET g == RouteRemoveNetworkActorToNodes(GraphState, a, ActiveNetworkActors[a].cls,
                                               ActiveNetworkActors[a].level)
       IN  /\ CommitGraph(g, "RouteRemoveNetworkActorToNodes")
           /\ IF g.oob \/ g.checkFailed
              THEN UNCHANGED << ActorLocation, ActiveNetworkActors, WorldLocation, DestructInfo >>
              ELSE /\ ActorLocation' = [ActorLocation EXCEPT ![a] = HomePosition]
                   /\ DestructInfo' = [DestructInfo EXCEPT ![a] =
                            DestructInfoOf(g, ActorLocation[a])]
                   /\ ActiveNetworkActors' = [ActiveNetworkActors EXCEPT ![a] =
                            Inactive(IF IsValid(DynamicSpatializedActors[a].cell)
                                     THEN "removedFromCell" ELSE "removed")]
                   /\ WorldLocation' = [WorldLocation EXCEPT ![a] = WorldOrigin]
    /\ UNCHANGED << ValidPlayerStates, ForceNetUpdate, Viewer, limiterVars, connVars, tickVars >>
    /\ UNCHANGED << classVars, PVSLookupTable, ClientVisibleLevels >>

\* RouteRemoveNetworkActorToNodes called for an actor that is not routed:
\* never added, or removed before.
RemoveUnroutedActor(a, cls, lvl) ==
    /\ Idle
    /\ ~ ActiveNetworkActors[a].active
    /\ CommitGraph(RouteRemoveNetworkActorToNodes(GraphState, a, cls, lvl),
                   "RouteRemoveNetworkActorToNodes")
    /\ UNCHANGED << worldVars, WorldLocation, DestructInfo, limiterVars, connVars, tickVars >>
    /\ UNCHANGED << classVars, PVSLookupTable, ClientVisibleLevels >>

\* The simulation moves an actor.
MoveActor(a, pos) ==
    /\ Idle
    /\ ActiveNetworkActors[a].active
    /\ ActorLocation[a] # pos
    /\ ActorLocation' = [ActorLocation EXCEPT ![a] = pos]
    /\ UNCHANGED << ActiveNetworkActors, ValidPlayerStates, ForceNetUpdate, Viewer, pvsVars,
                    routeVars, limiterVars, connVars, tickVars, fault >>
    /\ UNCHANGED << classVars, PVSLookupTable, ClientVisibleLevels >>


\* A player state leaves the world (its player disconnects).
PlayerStateLeaves(ps) ==
    /\ Idle
    /\ ps \in ValidPlayerStates
    /\ ValidPlayerStates' = ValidPlayerStates \ {ps}
    /\ ForceNetUpdate' = ForceNetUpdate \ {ps}
    /\ UNCHANGED << ActorLocation, ActiveNetworkActors, Viewer, pvsVars, routeVars,
                    limiterVars, connVars, tickVars, fault >>
    /\ UNCHANGED << classVars, PVSLookupTable, ClientVisibleLevels >>

\* AActor::ForceNetUpdate() on a player state, raised out of band.
RaiseForceNetUpdate(ps) ==
    /\ Idle
    /\ ps \in ValidPlayerStates \ ForceNetUpdate
    /\ Cardinality(ForceNetUpdate) < MaxForced
    /\ ForceNetUpdate' = ForceNetUpdate \cup {ps}
    /\ UNCHANGED << ActorLocation, ActiveNetworkActors, ValidPlayerStates, Viewer, pvsVars,
                    routeVars, limiterVars, connVars, tickVars, fault >>
    /\ UNCHANGED << classVars, PVSLookupTable, ClientVisibleLevels >>

\* A client reports a streaming level visible / no longer visible: the
\* connection's delegates call the connection node's handlers.
OnClientLevelVisibilityAdd(c, lvl) ==
    /\ Idle
    /\ Len(LevelsNeedingReplication[c]) < MaxTrackedLevels
    /\ ClientVisibleLevels' = [ClientVisibleLevels EXCEPT ![c] = @ \cup { lvl }]
    /\ LevelsNeedingReplication' = [LevelsNeedingReplication EXCEPT ![c] = Append(@, lvl)]
    /\ UNCHANGED << worldVars, pvsVars, routeVars, limiterVars, ReplicationActorList,
                    bInitializedPlayerState, DormantOnConnection, tickVars, fault >>
    /\ UNCHANGED << classVars, PVSLookupTable >>

OnClientLevelVisibilityRemove(c, lvl) ==
    /\ Idle
    /\ lvl \in ClientVisibleLevels[c]
    /\ ClientVisibleLevels' = [ClientVisibleLevels EXCEPT ![c] = @ \ { lvl }]
    /\ LevelsNeedingReplication' = [LevelsNeedingReplication EXCEPT ![c] =
            SelectSeq(@, LAMBDA l : l # lvl)]
    /\ UNCHANGED << worldVars, pvsVars, routeVars, limiterVars, ReplicationActorList,
                    bInitializedPlayerState, DormantOnConnection, tickVars, fault >>
    /\ UNCHANGED << classVars, PVSLookupTable >>

\* The engine marks an always-relevant actor of a streaming level dormant on a
\* connection (its channel went dormant) or awake again (dormancy flushed).
SetDormantOnConnection(c, a) ==
    /\ Idle
    /\ ActiveNetworkActors[a].active
    /\ ActiveNetworkActors[a].level # NAME_None
    /\ a \notin DormantOnConnection[c]
    /\ DormantOnConnection' = [DormantOnConnection EXCEPT ![c] = @ \cup { a }]
    /\ UNCHANGED << worldVars, pvsVars, routeVars, limiterVars, LevelsNeedingReplication,
                    ReplicationActorList, bInitializedPlayerState, ClientVisibleLevels,
                    tickVars, fault >>
    /\ UNCHANGED << classVars, PVSLookupTable >>

ClearDormantOnConnection(c, a) ==
    /\ Idle
    /\ a \in DormantOnConnection[c]
    /\ DormantOnConnection' = [DormantOnConnection EXCEPT ![c] = @ \ { a }]
    /\ UNCHANGED << worldVars, pvsVars, routeVars, limiterVars, LevelsNeedingReplication,
                    ReplicationActorList, bInitializedPlayerState, ClientVisibleLevels,
                    tickVars, fault >>
    /\ UNCHANGED << classVars, PVSLookupTable >>

\* The grid after every cell node's NotifyResetAllNetworkActors.
ResetCells(G) == [x \in 1 .. Len(G) |-> [y \in 1 .. Len(G[x]) |-> [G[x][y] EXCEPT !.dyn = EmptyBag]]]

\* Variant: the reset also empties the class tables.
ResetGameWorldStateAndClassTables ==
    /\ Idle
    /\ ActiveNetworkActors' = [a \in Actors |->
            IF ActiveNetworkActors[a].active
            THEN [ActiveNetworkActors[a] EXCEPT !.active = FALSE, !.life = "reset"]
            ELSE ActiveNetworkActors[a]]
    /\ WorldLocation' = [a \in Actors |-> WorldOrigin]
    /\ AlwaysRelevantNode' = EmptyBag
    /\ GridNode' = [static |-> {}, dynamic |-> {}, dormant |-> {}]
    /\ Grid' = ResetCells(Grid)
    /\ AlwaysRelevantStreamingLevelActors' = [l \in {} |-> {}]
    /\ ReplicationActorList' = [c \in Connections |-> {}]
    /\ LevelsNeedingReplication' = [c \in Connections |-> << >>]
    /\ UNCHANGED << ActorLocation, ValidPlayerStates, ForceNetUpdate, Viewer,
                    DynamicSpatializedActors, DestructInfo, limiterVars,
                    bInitializedPlayerState, DormantOnConnection, tickVars, fault >>
    /\ CommitClassTables(ConstructedClassTables)
    /\ UNCHANGED << classWorldVars, bClassSettingsInitialised, Resolution, PVSLookupTable,
                    ClientVisibleLevels >>

\* ResetGameWorldState: the engine forgets every network actor and resets the
\* global nodes' lists, then the level-keyed lists and every connection node's
\* transient lists are emptied.
ResetGameWorldState ==
    /\ Idle
    /\ ActiveNetworkActors' = [a \in Actors |->
            IF ActiveNetworkActors[a].active
            THEN [ActiveNetworkActors[a] EXCEPT !.active = FALSE, !.life = "reset"]
            ELSE ActiveNetworkActors[a]]
    /\ WorldLocation' = [a \in Actors |-> WorldOrigin]
    /\ AlwaysRelevantNode' = EmptyBag
    /\ GridNode' = [static |-> {}, dynamic |-> {}, dormant |-> {}]
    /\ Grid' = ResetCells(Grid)
    /\ AlwaysRelevantStreamingLevelActors' = [l \in {} |-> {}]
    /\ ReplicationActorList' = [c \in Connections |-> {}]
    /\ LevelsNeedingReplication' = [c \in Connections |-> << >>]
    /\ UNCHANGED << ActorLocation, ValidPlayerStates, ForceNetUpdate, Viewer,
                    DynamicSpatializedActors, DestructInfo, limiterVars,
                    bInitializedPlayerState, DormantOnConnection, tickVars, fault >>
    /\ UNCHANGED << classVars, PVSLookupTable, ClientVisibleLevels >>

\* ------------------------------------------------- class events
\* InitGlobalActorClassSettings, called once when the graph is set up.
InitGlobalActorClassSettings ==
    /\ Idle
    /\ ~ bClassSettingsInitialised
    /\ \E order \in Orders(AllReplicatedClasses) :
            CommitClassTables(ClassSettingsInitialised(
                ClassTables(ClassRepNodePolicyMap, ExplicitlySetClasses, ClassInfos), order))
    /\ bClassSettingsInitialised' = TRUE
    /\ UNCHANGED << worldVars, pvsVars, routeVars, limiterVars, connVars, tickVars,
                    classWorldVars, Resolution, fault >>

\* The lazy init function the engine calls the first time it needs the class
\* info of a class that has none.
InitClassInfoLazily(c) ==
    /\ Idle
    /\ bClassSettingsInitialised
    /\ c \notin DOMAIN ClassInfos
    /\ LET policies == RegisterClassRepNodeMapping(ClassRepNodePolicyMap, c)
       IN  /\ ClassRepNodePolicyMap' = policies
           /\ ClassInfos' = MapSet(ClassInfos, c,
                    IF IsExplicitlySet(ExplicitlySetClasses, c)
                    THEN InheritedClassInfo(ClassInfos, c)
                    ELSE InitClassReplicationInfo(c, IsSpatialized(policies[c])))
    /\ UNCHANGED << worldVars, pvsVars, routeVars, limiterVars, connVars, tickVars,
                    classWorldVars, bClassSettingsInitialised, ExplicitlySetClasses,
                    Resolution, fault >>

\* GetMappingPolicy for a class that has no policy entry yet.
ResolveMappingPolicy(c) ==
    /\ Idle
    /\ bClassSettingsInitialised
    /\ c \notin DOMAIN ClassRepNodePolicyMap
    /\ ClassRepNodePolicyMap' = ClassRepNodePoliciesGet(ClassRepNodePolicyMap, c)
    /\ UNCHANGED << worldVars, pvsVars, routeVars, limiterVars, connVars, tickVars,
                    classWorldVars, bClassSettingsInitialised, ExplicitlySetClasses,
                    ClassInfos, Resolution, fault >>

\* GetClassNodeMapping(c) is called: the first invocation is entered.
GetClassNodeMappingCall(c) ==
    /\ Idle
    /\ Resolution' = [root |-> c, cur |-> c, result |-> Pending]
    /\ UNCHANGED << worldVars, pvsVars, routeVars, limiterVars, connVars, tickVars,
                    classWorldVars, bClassSettingsInitialised, classTableVars, fault >>

\* The invocation entered last runs: it returns a policy, which every pending
\* caller hands on unchanged, or it enters the invocation for its parent.
GetClassNodeMappingStep ==
    /\ Running
    /\ Resolution # NoResolution
    /\ Resolution.result = Pending
    /\ LET frame == GetClassNodeMappingFrame(ClassRepNodePolicyMap, Resolution.cur)
       IN  Resolution' = IF frame.recurse
                         THEN [Resolution EXCEPT !.cur = frame.into]
                         ELSE [Resolution EXCEPT !.result = frame.value]
    /\ UNCHANGED << worldVars, pvsVars, routeVars, limiterVars, connVars, tickVars,
                    classWorldVars, bClassSettingsInitialised, classTableVars, fault >>

\* The caller has the policy.
GetClassNodeMappingReturn ==
    /\ Running
    /\ Resolution # NoResolution
    /\ Resolution.result # Pending
    /\ Resolution' = NoResolution
    /\ UNCHANGED << worldVars, pvsVars, routeVars, limiterVars, connVars, tickVars,
                    classWorldVars, bClassSettingsInitialised, classTableVars, fault >>

\* ------------------------------------------------- the replication tick
NoOut == [done |-> FALSE, grid |-> {}, alwaysRelevant |-> EmptyBag, limiter |-> << >>,
          pvs |-> EmptyBag, levels |-> << >>, conn |-> {}]

\* ServerReplicateActors, first half: PrepareForReplication of the nodes that
\* ask for it, in the order InitGlobalGraphNodes added them (the player-state
\* limiter, then the PVS grid).
PrepareForReplication ==
    /\ Idle
    /\ LET s == PVSPrepareForReplication(PVSState(DynamicSpatializedActors, Grid, WorldLocation))
       IN  /\ ReplicationActorLists' = LimiterPrepare(ValidPlayerStates, TargetActorsPerFrame)
           /\ ForceNetUpdateReplicationActorList' = LimiterForceList(ForceNetUpdate)
           /\ DynamicSpatializedActors' = s.map
           /\ Grid' = s.grid
           /\ WorldLocation' = s.wl
           /\ IF s.oob
              THEN /\ \E k \in FaultKinds : fault' = [kind |-> k, at |-> "PrepareForReplication"]
                   /\ UNCHANGED phase
              ELSE /\ fault' = fault
                   /\ phase' = "gather"
    /\ Out' = [c \in Connections |-> NoOut]
    /\ UNCHANGED << worldVars, routeVars, TargetActorsPerFrame, connVars, ReplicationFrameNum >>
    /\ UNCHANGED << classVars, PVSLookupTable, ClientVisibleLevels >>

\* ServerReplicateActors, second half, for one connection: every global node's
\* GatherActorListsForConnection in the order the nodes were added, then the
\* connection's own always-relevant node.
GatherActorListsForConnection(c) ==
    /\ Running
    /\ phase = "gather"
    /\ ~ Out[c].done
    /\ LET pvs == PVSGather(Grid, WorldLocation, ViewTargetOf(c))
           lv == GatherLevels(LevelsNeedingReplication[c], AlwaysRelevantStreamingLevelActors,
                              DormantOnConnection[c])
           list == ConnectionActorList(c, ReplicationFrameNum)
       IN  /\ Grid' = pvs.grid
           /\ LevelsNeedingReplication' = [LevelsNeedingReplication EXCEPT ![c] = lv.levels]
           /\ ReplicationActorList' = [ReplicationActorList EXCEPT ![c] = list]
           /\ bInitializedPlayerState' = [bInitializedPlayerState EXCEPT ![c] =
                    @ \/ PlayerStateOf(c) \in list]
           /\ IF Len(ReplicationActorLists) = 0
              THEN /\ fault' = [kind |-> "undefined", at |-> "GatherActorListsForConnection"]
                   /\ UNCHANGED Out
              ELSE /\ fault' = fault
                   /\ Out' = [Out EXCEPT ![c] =
                        [done |-> TRUE,
                         grid |-> GridNode.static \cup GridNode.dynamic \cup GridNode.dormant,
                         alwaysRelevant |-> AlwaysRelevantNode,
                         limiter |-> LimiterGather(ReplicationActorLists,
                                                   ForceNetUpdateReplicationActorList,
                                                   ReplicationFrameNum),
                         pvs |-> pvs.out,
                         levels |-> lv.out,
                         conn |-> list]]
    /\ UNCHANGED << worldVars, WorldLocation, DynamicSpatializedActors, routeVars, limiterVars,
                    DormantOnConnection, ReplicationFrameNum, phase >>
    /\ UNCHANGED << classVars, PVSLookupTable, ClientVisibleLevels >>

\* The tick ends once every connection was gathered; the gathered lists are
\* handed downstream and the frame counter advances (up to `limit`).
EndFrame(limit) ==
    /\ Running
    /\ phase = "gather"
    /\ \A c \in Connections : Out[c].done
    /\ ReplicationFrameNum < limit
    /\ ReplicationFrameNum' = ReplicationFrameNum + 1
    /\ phase' = "idle"
    /\ Out' = [c \in Connections |-> NoOut]
    /\ UNCHANGED << worldVars, pvsVars, routeVars, limiterVars, connVars, fault >>
    /\ UNCHANGED << classVars, PVSLookupTable, ClientVisibleLevels >>

\* ------------------------------------------------- specifications
DefaultViewer == [isNebulaPC |-> TRUE, hasPlayerState |-> TRUE]

\* The state after InitGlobalGraphNodes and InitConnectionGraphNodes, for a
\* world with the given player states, list capacity and viewers.
InitGraph(playerStates, target, viewers) ==
    /\ ActorLocation = [a \in Actors |-> HomePosition]
    /\ ActiveNetworkActors = [a \in Actors |-> Inactive("never")]
    /\ ValidPlayerStates = playerStates
    /\ ForceNetUpdate = {}
    /\ Viewer = viewers
    /\ WorldLocation = [a \in Actors |-> WorldOrigin]
    /\ DynamicSpatializedActors = [a \in Actors |-> Untracked]
    /\ Grid = << >>
    /\ PVSLookupTable = GenerateLookupTable
    /\ AlwaysRelevantNode = EmptyBag
    /\ GridNode = [static |-> {}, dynamic |-> {}, dormant |-> {}]
    /\ AlwaysRelevantStreamingLevelActors = [l \in {} |-> {}]
    /\ DestructInfo = [a \in Actors |-> NoDestructInfo]
    /\ TargetActorsPerFrame = target
    /\ ReplicationActorLists = << >>
    /\ ForceNetUpdateReplicationActorList = << >>
    /\ LevelsNeedingReplication = [c \in Connections |-> << >>]
    /\ ReplicationActorList = [c \in Connections |-> {}]
    /\ bInitializedPlayerState = [c \in Connections |-> FALSE]
    /\ DormantOnConnection = [c \in Connections |-> {}]
    /\ ClientVisibleLevels = [c \in Connections |-> {}]
    /\ ReplicationFrameNum = 0
    /\ phase = "idle"
    /\ Out = [c \in Connections |-> NoOut]
    /\ fault = NoFault

\* A class hierarchy and the project's settings.
ClassWorld(super, cdo, character, settings, startup) ==
    /\ SuperClass = super
    /\ ClassCDO = cdo
    /\ CharacterClass = character
    /\ ClassSettings = settings
    /\ StartupClasses = startup
    /\ Resolution = NoResolution

\* The class tables before InitGlobalActorClassSettings.
ClassTablesConstructed ==
    /\ bClassSettingsInitialised = FALSE
    /\ ClassRepNodePolicyMap = ConstructedClassTables.policies
    /\ ExplicitlySetClasses = ConstructedClassTables.explicit
    /\ ClassInfos = ConstructedClassTables.infos

\* The class tables after InitGlobalActorClassSettings.
ClassTablesInitialised ==
    /\ bClassSettingsInitialised = TRUE
    /\ \E order \in Orders(AllReplicatedClasses) :
            LET t == ClassSettingsInitialised(ConstructedClassTables, order)
            IN  /\ ClassRepNodePolicyMap = t.policies
                /\ ExplicitlySetClasses = t.explicit
                /\ ClassInfos = t.infos

\* The hierarchy the other slices run with: replicated actor classes directly
\* below AActor, the last of them the character class, no settings entry.
ReplicatedCDO ==
    [bReplicates |-> TRUE, bAlwaysRelevant |-> FALSE, bOnlyRelevantToOwner |-> FALSE,
     bNetUseOwnerRelevancy |-> FALSE]
DefaultClassWorld ==
    ClassWorld([c \in Classes |-> IF c = AActorClass THEN NoClass ELSE AActorClass],
               [c \in Classes |-> IF c = AActorClass THEN NotReplicatedCDO ELSE ReplicatedCDO],
               NumClasses, << >>, Classes)

InitWith(playerStates, target, viewers) ==
    /\ InitGraph(playerStates, target, viewers)
    /\ DefaultClassWorld
    /\ ClassTablesInitialised

\* The PVS grid node: characters spawn, move and are destroyed between ticks.
InitPVS == InitWith({}, DefaultTargetActorsPerFrame, [c \in Connections |-> DefaultViewer])
NextPVS ==
    \/ \E a \in Actors, pos \in Positions : AddNetworkActor(a, "Character", NAME_None, pos)
    \/ \E a \in Actors : RemoveNetworkActor(a)
    \/ \E a \in Actors, pos \in Positions : MoveActor(a, pos)
    \/ PrepareForReplication
    \/ \E c \in Connections : GatherActorListsForConnection(c)
    \/ EndFrame(GridFrames)
SpecPVS == InitPVS /\ [][NextPVS]_vars


\* The orchestrator: actors of every routed class, on streaming levels or on
\* none, are added and removed; removals also arrive for actors that are not
\* routed; the world is reset.
RoutePositions == { HomePosition }
LevelNames == { NAME_None } \cup Levels
InitRoute == InitWith({}, DefaultTargetActorsPerFrame, [c \in Connections |-> DefaultViewer])
NextRoute ==
    \/ \E a \in Actors, cls \in RoutedClasses, lvl \in LevelNames, pos \in RoutePositions :
            AddNetworkActor(a, cls, lvl, pos)
    \/ \E a \in Actors : RemoveNetworkActor(a)
    \/ \E a \in Actors, cls \in RoutedClasses, lvl \in LevelNames :
            RemoveUnroutedActor(a, cls, lvl)
    \/ ResetGameWorldState
    \/ PrepareForReplication
    \/ \E c \in Connections : GatherActorListsForConnection(c)
    \/ EndFrame(GridFrames)
SpecRoute == InitRoute /\ [][NextRoute]_vars


\* Destruction: actors of every routed class are spawned near and far from
\* the origin and destroyed where they are.
InitDestroy == InitWith({}, DefaultTargetActorsPerFrame, [c \in Connections |-> DefaultViewer])
NextDestroy ==
    \/ \E a \in Actors, cls \in RoutedClasses, lvl \in LevelNames, pos \in DestroyPositions :
            AddNetworkActor(a, cls, lvl, pos)
    \/ \E a \in Actors : RemoveNetworkActor(a)
SpecDestroy == InitDestroy /\ [][NextDestroy]_vars


\* Class policies and settings: any hierarchy of NumClasses classes below
\* AActor whose class default objects carry any traits, any class of it the
\* character class, up to MaxClassSettings settings entries; the last class
\* may be loaded after startup. The tables are set up, then classes are
\* resolved and initialised lazily.
SuperClasses ==
    { super \in [Classes -> Classes \cup { NoClass }] :
        /\ super[AActorClass] = NoClass
        /\ \A c \in Classes \ { AActorClass } : super[c] \in 0 .. (c - 1) }
\* The class default objects the hierarchies are built from: the one that is
\* not replicated and, of the replicated ones, one for each way the trait
\* tests of GetClassNodeMapping can end (spatialized; always relevant; always
\* relevant but owner only; owner relevancy used).
SampledCDOs ==
    { cdo \in ClassCDOs :
        /\ cdo.bOnlyRelevantToOwner => cdo.bAlwaysRelevant
        /\ cdo.bNetUseOwnerRelevancy => ~ cdo.bAlwaysRelevant }
CDOAssignments == { cdo \in [Classes -> SampledCDOs] : cdo[AActorClass] = NotReplicatedCDO }
SettingsEntries == [cls : Classes \ { AActorClass }, mapping : ClassNodeMappings]
SettingsArrays == UNION { [1 .. n -> SettingsEntries] : n \in 0 .. MaxClassSettings }
InitClass ==
    \E super \in SuperClasses, cdo \in CDOAssignments, character \in Classes \ { AActorClass },
       settings \in SettingsArrays, startup \in { Classes, Classes \ { NumClasses } } :
        /\ \A i \in DOMAIN settings : settings[i].cls \in startup
        /\ InitGraph({}, DefaultTargetActorsPerFrame, [c \in Connections |-> DefaultViewer])
        /\ ClassWorld(super, cdo, character, settings, startup)
        /\ ClassTablesConstructed
NextClass ==
    \/ InitGlobalActorClassSettings
    \/ \E c \in Classes : InitClassInfoLazily(c)
    \/ \E c \in Classes : ResolveMappingPolicy(c)
SpecClass == InitClass /\ [][NextClass]_vars

\* The resolver on its own: the same hierarchies with every combination of
\* the four traits, and no settings entry.
TraitAssignments == { cdo \in [Classes -> ClassCDOs] : cdo[AActorClass] = NotReplicatedCDO }
InitTraits ==
    \E super \in SuperClasses, cdo \in TraitAssignments, character \in Classes \ { AActorClass },
       startup \in { Classes, Classes \ { NumClasses } } :
        /\ InitGraph({}, DefaultTargetActorsPerFrame, [c \in Connections |-> DefaultViewer])
        /\ ClassWorld(super, cdo, character, << >>, startup)
        /\ ClassTablesConstructed
SpecTraits == InitTraits /\ [][NextClass]_vars


\* The resolver call by call: the hierarchies and traits of SpecClass with no
\* settings entry; GetClassNodeMapping is called for any class and for no
\* class, before and after the tables are set up, and a call that was entered
\* keeps running.
InitResolve ==
    \E super \in SuperClasses, cdo \in CDOAssignments, character \in Classes \ { AActorClass },
       startup \in { Classes, Classes \ { NumClasses } } :
        /\ InitGraph({}, DefaultTargetActorsPerFrame, [c \in Connections |-> DefaultViewer])
        /\ ClassWorld(super, cdo, character, << >>, startup)
        /\ ClassTablesConstructed
NextResolve ==
    \/ InitGlobalActorClassSettings
    \/ \E c \in Classes \cup { NoClass } : GetClassNodeMappingCall(c)
    \/ GetClassNodeMappingStep
    \/ GetClassNodeMappingReturn
SpecResolve == InitResolve /\ [][NextResolve]_vars /\ WF_vars(GetClassNodeMappingStep)


\* The tick: characters spawn, cross a cell border and are destroyed, player
\* states leave, all between ticks; each tick prepares, then gathers for
\* every connection.  The positions are in cell (0,0), in cell (1,0) and in
\* cell (7,0), the first cell past the keys of the lookup table.
TickPositions ==
    { HomePosition, << PVSSpatialBiasX + PVSSCellSize, PVSSpatialBiasY >>,
      << PVSSpatialBiasX + 7 * PVSSCellSize, PVSSpatialBiasY >> }
InitTick ==
    InitWith({ 100 + i : i \in 1 .. MaxTargetActors }, DefaultTargetActorsPerFrame,
             [c \in Connections |-> DefaultViewer])
NextTick ==
    \/ \E a \in Actors, pos \in TickPositions : AddNetworkActor(a, "Character", NAME_None, pos)
    \/ \E a \in Actors : RemoveNetworkActor(a)
    \/ \E a \in Actors, pos \in TickPositions : MoveActor(a, pos)
    \/ \E ps \in PlayerStateIds : PlayerStateLeaves(ps)
    \/ PrepareForReplication
    \/ \E c \in Connections : GatherActorListsForConnection(c)
    \/ EndFrame(GridFrames)
SpecTick == InitTick /\ [][NextTick]_vars


\* The PVS grid node across world resets: characters spawn in one of two
\* neighbouring cells, move, are destroyed, and the world is reset; an actor
\* the reset made the graph forget is added again.
ReAddPositions == { HomePosition, << PVSSpatialBiasX + PVSSCellSize, PVSSpatialBiasY >> }
InitReAdd == InitWith({}, DefaultTargetActorsPerFrame, [c \in Connections |-> DefaultViewer])
NextReAdd ==
    \/ \E a \in Actors, pos \in ReAddPositions : AddNetworkActor(a, "Character", NAME_None, pos)
    \/ \E a \in Actors : RemoveNetworkActor(a)
    \/ \E a \in Actors, pos \in ReAddPositions : MoveActor(a, pos)
    \/ ResetGameWorldState
    \/ PrepareForReplication
    \/ \E c \in Connections : GatherActorListsForConnection(c)
    \/ EndFrame(GridFrames)
SpecReAdd == InitReAdd /\ [][NextReAdd]_vars


\* The frequency limiter: any set of player states is in the world, the list
\* capacity is any value from 1 up; player states leave and raise their
\* forced-update flag between ticks.
InitFreq ==
    \E playerStates \in SUBSET PlayerStateIds, target \in 1 .. MaxTargetActors :
        InitWith(playerStates, target, [c \in Connections |-> DefaultViewer])
NextFreq ==
    \/ \E ps \in PlayerStateIds : PlayerStateLeaves(ps)
    \/ \E ps \in PlayerStateIds : RaiseForceNetUpdate(ps)
    \/ PrepareForReplication
    \/ \E c \in Connections : GatherActorListsForConnection(c)
    \/ EndFrame(MaxFrame)
SpecFreq == InitFreq /\ [][NextFreq]_vars


\* The per-connection node: viewers with or without the game's controller type
\* and a player state; pawns and level-scoped always-relevant actors spawn,
\* clients report level visibility, ticks run up to ConnFrames.  A viewer
\* that is not the game's controller type stands for both such viewers: its
\* player state is never read.
ViewerKinds == [isNebulaPC : BOOLEAN, hasPlayerState : BOOLEAN]
ConnViewerKinds == { v \in ViewerKinds : v.hasPlayerState => v.isNebulaPC }
InitConn ==
    \E viewers \in [Connections -> ConnViewerKinds] :
        InitWith({}, DefaultTargetActorsPerFrame, viewers)
NextConn ==
    \/ \E a \in Actors : AddNetworkActor(a, "Character", NAME_None, HomePosition)
    \/ \E a \in Actors, lvl \in Levels : AddNetworkActor(a, "GameState", lvl, HomePosition)
    \/ \E c \in Connections, lvl \in Levels : OnClientLevelVisibilityAdd(c, lvl)
    \/ \E c \in Connections, lvl \in Levels : OnClientLevelVisibilityRemove(c, lvl)
    \/ PrepareForReplication
    \/ \E c \in Connections : GatherActorListsForConnection(c)
    \/ EndFrame(ConnFrames)
SpecConn == InitConn /\ [][NextConn]_vars


\* Streaming levels: always-relevant actors of the levels spawn and are
\* destroyed, go dormant on a connection and wake up, clients report levels
\* visible and no longer visible, ticks run up to LevelFrames.  Dormancy is
\* followed on the first connection; the other sees every actor awake.
DormancyConnections == { 1 }
InitLevels == InitWith({}, DefaultTargetActorsPerFrame, [c \in Connections |-> DefaultViewer])
NextLevels ==
    \/ \E a \in Actors, lvl \in Levels : AddNetworkActor(a, "GameState", lvl, HomePosition)
    \/ \E a \in Actors : RemoveNetworkActor(a)
    \/ \E c \in Connections, lvl \in Levels : OnClientLevelVisibilityAdd(c, lvl)
    \/ \E c \in Connections, lvl \in Levels : OnClientLevelVisibilityRemove(c, lvl)
    \/ \E c \in DormancyConnections, a \in Actors : SetDormantOnConnection(c, a)
    \/ \E c \in DormancyConnections, a \in Actors : ClearDormantOnConnection(c, a)
    \/ PrepareForReplication
    \/ \E c \in Connections : GatherActorListsForConnection(c)
    \/ EndFrame(LevelFrames)
SpecLevels == InitLevels /\ [][NextLevels]_vars


\* The whole graph: every world, every event.
Init ==
    \E playerStates \in SUBSET PlayerStateIds, target \in 1 .. MaxTargetActors,
       viewers \in [Connections -> ViewerKinds] :
        InitWith(playerStates, target, viewers)
Next ==
    NextPVS \/ NextRoute \/ NextDestroy \/ NextClass \/ NextResolve \/ NextTick \/ NextReAdd \/ NextFreq
    \/ NextConn \/ NextLevels
Spec == Init /\ [][Next]_vars

\* ------------------------------------------------- PVS grid: properties
\* The cells that exist in the grid arrays.
CellKeys(G) ==
    UNION { { << x, y >> : y \in 0 .. (Len(G[x + 1]) - 1) } : x \in 0 .. (Len(G) - 1) }

InExactlyOneCell(G, a) ==
    \E k \in CellKeys(G) :
        /\ CellDyn(G, k[1], k[2])[a] = 1
        /\ \A k2 \in CellKeys(G) \ {k} : CellDyn(G, k2[1], k2[2])[a] = 0

InNoCell(G, a) == \A k \in CellKeys(G) : CellDyn(G, k[1], k[2])[a] = 0

Tracked(a) == DynamicSpatializedActors[a].tracked

\* C1: an entity managed by the PVS grid node is a member of exactly one cell
\* at any time. Stated for the entities PrepareForReplication has gone over
\* since they were added (the add itself only records the entity): during the
\* gather, and where PrepareForReplication ended the process.
C1_ExactlyOneCell ==
    \A a \in Actors :
        (Tracked(a) /\ (phase = "gather" \/ fault.at = "PrepareForReplication"))
            => InExactlyOneCell(Grid, a)

\* floor((pos - bias) / cellSize) per axis.
FloorCellOf(loc) ==
    << (loc[1] - PVSSpatialBiasX) \div PVSSCellSize,
       (loc[2] - PVSSpatialBiasY) \div PVSSCellSize >>

\* C2: the cell index recorded for an entity is the floor, per axis, of
\* (position - bias) / cellSize, also for positions below the bias.
C2_CellIndexIsFloor ==
    \A a \in Actors :
        (Tracked(a) /\ IsValid(DynamicSpatializedActors[a].cell))
            => /\ DynamicSpatializedActors[a].cell = FloorCellOf(WorldLocation[a])
               /\ BagIn(CellDyn(Grid, FloorCellOf(WorldLocation[a])[1],
                                FloorCellOf(WorldLocation[a])[2]), a)

\* The number of times `a` is held by the cells at positions from..Len(cells).
RECURSIVE ListedCount(_, _, _, _)
ListedCount(G, cells, from, a) ==
    IF from > Len(cells) THEN 0
    ELSE CellDyn(G, cells[from][1], cells[from][2])[a] + ListedCount(G, cells, from + 1, a)

\* What the table prescribes for a connection: the contents of the cells listed
\* for the viewer's cell, nothing when there is no view target or no entry.
ListedForViewer(c) ==
    LET vt == ViewTargetOf(c)
    IN  IF vt = NoActor \/ GridCellOf(WorldLocation[vt]) \notin DOMAIN PVSLookupTable
        THEN EmptyBag
        ELSE [a \in Actors |->
                ListedCount(Grid, PVSLookupTable[GridCellOf(WorldLocation[vt])], 1, a)]

\* C3: the PVS gather for a connection returns the union of exactly the cells
\* listed in the lookup table for the viewer's cell, and nothing else.
C3_GatherIsListedCells ==
    \A c \in Connections : Out[c].done => Out[c].pvs = ListedForViewer(c)

\* A gather that returned an entity of a listed cell beyond the first while
\* another tracked entity sits in a cell that is not listed.
C3_Witness ==
    \E c \in Connections, a, b \in Actors :
        /\ Out[c].done
        /\ Out[c].pvs[a] = 1
        /\ DynamicSpatializedActors[a].cell = << 0, 1 >>
        /\ Tracked(b)
        /\ DynamicSpatializedActors[b].cell[1] = 1
        /\ Out[c].pvs[b] = 0

\* The dynamic contents of every cell position either grid has.
SameCellsExcept(G1, G2, a) ==
    \A k \in CellKeys(G1) \cup CellKeys(G2) :
        CellDyn(G2, k[1], k[2]) = [CellDyn(G1, k[1], k[2]) EXCEPT ![a] = 0]

Destinations(map, ar, gridNode, levelActors, a) ==
    (IF map[a].tracked THEN { << "PVSGridNode", NAME_None >> } ELSE {})
    \cup (IF BagIn(ar, a) THEN { << "AlwaysRelevantNode", NAME_None >> } ELSE {})
    \cup { << "AlwaysRelevantStreamingLevelActors", l >> :
                l \in { k \in DOMAIN levelActors : a \in levelActors[k] } }
    \cup (IF a \in gridNode.static THEN { << "GridNode.Static", NAME_None >> } ELSE {})
    \cup (IF a \in gridNode.dynamic THEN { << "GridNode.Dynamic", NAME_None >> } ELSE {})
    \cup (IF a \in gridNode.dormant THEN { << "GridNode.Dormancy", NAME_None >> } ELSE {})

DestinationsNow(a) ==
    Destinations(DynamicSpatializedActors, AlwaysRelevantNode, GridNode,
                 AlwaysRelevantStreamingLevelActors, a)

DestinationsNext(a) ==
    Destinations(DynamicSpatializedActors', AlwaysRelevantNode', GridNode',
                 AlwaysRelevantStreamingLevelActors', a)

WasRemoved(a) == ActiveNetworkActors[a].life \in { "removed", "removedFromCell" }

\* What a finished gather returned from the global nodes and the level lists.
Returned(c) ==
    { a \in Actors : BagIn(Out[c].pvs, a) \/ BagIn(Out[c].alwaysRelevant, a) \/ a \in Out[c].grid }
    \cup UNION { IF Out[c].levels[i] \in DOMAIN AlwaysRelevantStreamingLevelActors
                 THEN AlwaysRelevantStreamingLevelActors[Out[c].levels[i]] ELSE {} :
                 i \in 1 .. Len(Out[c].levels) }

\* C4: after its remove event an entity is Unrouted: no cell, tracked map,
\* always-relevant list, level-keyed list or spatial list holds it, and no
\* gather that follows returns it.
C4_RemovedIsUnrouted ==
    \A a \in Actors :
        WasRemoved(a)
            => /\ DestinationsNow(a) = {}
               /\ InNoCell(Grid, a)
               /\ \A c \in Connections : Out[c].done => a \notin Returned(c)

\* The destination a class policy and a streaming level imply.
ImpliedDestination(cls, lvl) ==
    LET Policy == ClassRepNodePolicies[cls]
    IN  CASE Policy = "NotRouted" -> {}
          [] Policy = "PrecomputedVisibility" -> { << "PVSGridNode", NAME_None >> }
          [] Policy = "RelevantAllConnections" ->
                IF lvl = NAME_None THEN { << "AlwaysRelevantNode", NAME_None >> }
                ELSE { << "AlwaysRelevantStreamingLevelActors", lvl >> }
          [] Policy = "Spatialize_Static" -> { << "GridNode.Static", NAME_None >> }
          [] Policy = "Spatialize_Dynamic" -> { << "GridNode.Dynamic", NAME_None >> }
          [] Policy = "Spatialize_Dormancy" -> { << "GridNode.Dormancy", NAME_None >> }

\* C6: RouteAddNetworkActorToNodes inserts the entity into exactly the one
\* destination its class policy (and streaming level) implies, into no other,
\* and moves no other entity.
C6_AddRoutesToImplied ==
    [][\A a \in Actors :
          (~ ActiveNetworkActors[a].active /\ ActiveNetworkActors'[a].active)
            => /\ DestinationsNext(a) =
                    DestinationsNow(a)
                    \cup ImpliedDestination(ActiveNetworkActors'[a].cls,
                                            ActiveNetworkActors'[a].level)
               /\ \A b \in Actors \ {a} : DestinationsNext(b) = DestinationsNow(b)
               /\ fault' = fault]_vars

\* A level-scoped always-relevant entity held by its level's list only, next
\* to an entity of another level and the list of that level.
C6_Witness ==
    \E a, b \in Actors :
        /\ ActiveNetworkActors[a].active
        /\ ActiveNetworkActors[a].cls = "GameState"
        /\ ActiveNetworkActors[a].level = 1
        /\ DestinationsNow(a) = { << "AlwaysRelevantStreamingLevelActors", 1 >> }
        /\ ActiveNetworkActors[b].active
        /\ DestinationsNow(b) = { << "AlwaysRelevantStreamingLevelActors", 2 >> }

\* C7: removing an entity that is not in the list its policy implies is a
\* no-op: RouteRemoveNetworkActorToNodes never ends the process.
C7_StrayRemoveNeverFatal ==
    fault.at # "RouteRemoveNetworkActorToNodes"


\* ------------------------------------------------- limiter: properties
Max(x, y) == IF x >= y THEN x ELSE y
CeilDiv(n, c) == (n + c - 1) \div c

\* The lists in which a player state sits.
ListsHolding(lists, ps) ==
    { << i, j >> \in (1 .. Len(lists)) \X (1 .. MaxTargetActors) :
            j <= Len(lists[i]) /\ lists[i][j] = ps }

\* C8: with capacity c and n eligible player states, PrepareForReplication
\* produces max(1, ceil(n/c)) lists, each but the last of exactly c entries,
\* the last holding the remainder, every eligible entity in exactly one list
\* and nothing else in any; the gather of tick t returns list t mod #lists.
C8_BucketsPartition ==
    phase = "gather" =>
        LET n == Cardinality(ValidPlayerStates)
            c == TargetActorsPerFrame
            lists == ReplicationActorLists
            K == Len(lists)
        IN  /\ K = Max(1, CeilDiv(n, c))
            /\ \A i \in 1 .. (K - 1) : Len(lists[i]) = c
            /\ Len(lists[K]) = n - c * (K - 1)
            /\ \A ps \in PlayerStateIds :
                    Cardinality(ListsHolding(lists, ps)) = (IF ps \in ValidPlayerStates THEN 1 ELSE 0)
            /\ \A conn \in Connections :
                    Out[conn].done =>
                        /\ Len(Out[conn].limiter) >= 1
                        /\ Out[conn].limiter[1] = lists[(ReplicationFrameNum % K) + 1]

\* Seven eligible player states with capacity three: lists of 3, 3 and 1, and
\* the gather of tick 3 returned list 0 again.
C8_Witness ==
    /\ phase = "gather"
    /\ Cardinality(ValidPlayerStates) = 7
    /\ TargetActorsPerFrame = 3
    /\ Len(ReplicationActorLists) = 3
    /\ Len(ReplicationActorLists[1]) = 3
    /\ Len(ReplicationActorLists[2]) = 3
    /\ Len(ReplicationActorLists[3]) = 1
    /\ ReplicationFrameNum = 3
    /\ \E conn \in Connections :
            Out[conn].done /\ Out[conn].limiter[1] = ReplicationActorLists[1]

\* The player states a gather's limiter lists offer.
Offered(conn) ==
    { ps \in PlayerStateIds :
        \E i \in 1 .. Len(Out[conn].limiter), j \in 1 .. NumPlayerStates :
            j <= Len(Out[conn].limiter[i]) /\ Out[conn].limiter[i][j] = ps }

\* C9: every eligible player state whose forced-update flag is raised is
\* offered to every connection on every tick, whichever list it sits in.
C9_ForcedAlwaysOffered ==
    \A conn \in Connections :
        Out[conn].done => (ForceNetUpdate \cap ValidPlayerStates) \subseteq Offered(conn)

\* ------------------------------------------------- connection node: properties
\* C10: for a viewer that is the game's player controller and has a player
\* state, the gather of tick t includes the player state if and only if
\* (ConnectionOrderNum + t) mod 2 = 0.
C10_PlayerStateEveryOtherTick ==
    \A c \in Connections :
        (Out[c].done /\ Viewer[c].isNebulaPC /\ Viewer[c].hasPlayerState)
            => ((PlayerStateOf(c) \in Out[c].conn)
                    <=> ((ConnectionOrderNum(c) + ReplicationFrameNum) % 2 = 0))

\* An odd tick: the connection with order number 1 got its player state, the
\* one with order number 0 did not.
C10_Witness ==
    \E c, d \in Connections :
        /\ ConnectionOrderNum(c) = 1
        /\ ConnectionOrderNum(d) = 0
        /\ ReplicationFrameNum = 3
        /\ Out[c].done /\ Viewer[c].isNebulaPC /\ Viewer[c].hasPlayerState
        /\ PlayerStateOf(c) \in Out[c].conn
        /\ Out[d].done /\ Viewer[d].isNebulaPC /\ Viewer[d].hasPlayerState
        /\ PlayerStateOf(d) \notin Out[d].conn

\* ------------------------------------------------------------------ C11
\* The engine sends a pending destruction info to a connection when the info
\* ignores distance culling or the destroyed actor is within the limit.
DistSquared(pos) == pos[1] * pos[1] + pos[2] * pos[2]
NoticeEmitted(info) ==
    info.pending /\ (info.bIgnoreDistanceCulling
                        \/ DistSquared(info.position) <= DestructInfoMaxDistanceSquared)

\* C11: a destroyed entity's destruction notice is emitted if and only if its
\* distance is at most DestructionInfoMaxDist, whatever its routing policy.
C11_NoticeIffWithinMaxDist ==
    \A a \in Actors :
        DestructInfo[a].pending =>
            (NoticeEmitted(DestructInfo[a])
                <=> DistSquared(DestructInfo[a].position) <= DestructInfoMaxDistanceSquared)

\* ------------------------------------------------------------------ C12
\* What a resolution of class c returns in the current state.
ResolvedPolicy(c) == GetClassNodeMapping(ClassRepNodePolicyMap, c)
SameTraitsAsParent(c) ==
    SuperClass[c] # NoClass /\ ClassCDO[c] = ClassCDO[SuperClass[c]]
ConfiguredClasses == { ClassSettings[i].cls : i \in DOMAIN ClassSettings }

SameCellMembership(G1, G2) ==
    \A k \in CellKeys(G1) \cup CellKeys(G2) : CellDyn(G1, k[1], k[2]) = CellDyn(G2, k[1], k[2])

\* The node state reflects the world as it is: every tracked actor is listed
\* in the cell of its present location and the bucket lists hold the present
\* player states.
PreparedForWorld(map, G, lists) ==
    /\ \A a \in Actors :
            map[a].tracked =>
                /\ map[a].cell = GridCellOf(ActorLocation[a])
                /\ CellDyn(G, map[a].cell[1], map[a].cell[2])[a] > 0
    /\ lists = LimiterPrepare(ValidPlayerStates, TargetActorsPerFrame)

GatherStep(c) == ~ Out[c].done /\ Out'[c].done

\* C13: in every tick the preparation of the precomputed-visibility grid and
\* of the frequency limiter is complete before any connection is gathered, and
\* no cell membership or bucket list changes between the gathers of the tick.
C13_GatherAfterPrepareFromSnapshot ==
    [][/\ \A c \in Connections :
            GatherStep(c) =>
                /\ phase = "gather"
                /\ PreparedForWorld(DynamicSpatializedActors, Grid, ReplicationActorLists)
       /\ (phase = "gather" /\ phase' = "gather") =>
            /\ SameCellMembership(Grid, Grid')
            /\ DynamicSpatializedActors' = DynamicSpatializedActors
            /\ ReplicationActorLists' = ReplicationActorLists
            /\ ForceNetUpdateReplicationActorList' = ForceNetUpdateReplicationActorList
      ]_vars

\* Both connections were gathered in a tick whose preparation moved an actor
\* to another cell and rebuilt the buckets after a player state had left.
C13_Witness ==
    /\ phase = "gather"
    /\ \A c \in Connections : Out[c].done
    /\ ReplicationFrameNum > 0
    /\ Cardinality(ValidPlayerStates) < MaxTargetActors
    /\ Len(ReplicationActorLists) = 1
    /\ \E a \in Actors :
            /\ DynamicSpatializedActors[a].tracked
            /\ DynamicSpatializedActors[a].cell = << 1, 0 >>
            /\ CellDyn(Grid, 0, 0)[a] = 0
            /\ Out[1].pvs[a] = 0

\* ------------------------------------------------------------------ C14
\* C14: GatherActorListsForConnection of the global nodes leaves all shared
\* node state unchanged: the grid is not resized, no cell node is created and
\* no cell's contents change.
C14_GatherLeavesSharedStateUnchanged ==
    [][(\E c \in Connections : GatherStep(c)) =>
            /\ Grid' = Grid
            /\ DynamicSpatializedActors' = DynamicSpatializedActors
            /\ UNCHANGED << routeVars, limiterVars >>
      ]_vars

\* ------------------------------------------------------------------ C15
\* The per-connection state of connection b.
ConnectionState(b) ==
    << LevelsNeedingReplication[b], ReplicationActorList[b], bInitializedPlayerState[b],
       DormantOnConnection[b], Out[b] >>

\* What a gather for connection b returns from the shared nodes, and the
\* level list it leaves in b's node, when it runs on grid G, world locations
\* wl, level tracking list `needing`, level lists levelActors and b's dormancy
\* bookkeeping `dormant`.
GatherOutcome(b, G, wl, needing, levelActors, dormant) ==
    [pvs |-> PVSGather(G, wl, ViewTargetOf(b)).out,
     levels |-> GatherLevels(needing, levelActors, dormant)]

\* C15: a gather for one connection neither writes another connection's
\* per-connection state nor changes what the other connection's gather
\* returns and leaves behind: the order of two gathers does not matter.
C15_GathersAreIndependent ==
    [][\A c \in Connections :
         GatherStep(c) =>
            \A b \in Connections \ { c } :
                /\ ConnectionState(b)' = ConnectionState(b)
                /\ ViewTargetOf(b)' = ViewTargetOf(b)
                /\ GatherOutcome(b, Grid', WorldLocation', LevelsNeedingReplication'[b],
                                 AlwaysRelevantStreamingLevelActors', DormantOnConnection'[b])
                        = GatherOutcome(b, Grid, WorldLocation, LevelsNeedingReplication[b],
                                        AlwaysRelevantStreamingLevelActors,
                                        DormantOnConnection[b])
                /\ ConnectionActorList(b, ReplicationFrameNum)'
                        = ConnectionActorList(b, ReplicationFrameNum)
      ]_vars

\* Both connections were gathered in one tick and got different lists.
C15_Witness ==
    /\ phase = "gather"
    /\ \A c \in Connections : Out[c].done
    /\ Out[1].levels # Out[2].levels
    /\ Out[1].conn # Out[2].conn
    /\ Len(LevelsNeedingReplication[1]) # Len(LevelsNeedingReplication[2])
    /\ bInitializedPlayerState[1] # bInitializedPlayerState[2]

\* ------------------------------------------------------------------ C16
WasReset(a) == ActiveNetworkActors[a].life = "reset"

\* C16: after ResetGameWorldState no transient list holds an entity that was
\* added before the reset (the PVS node's tracked entities and cell contents
\* included), and no gather returns it, until it is added again.
C16_ResetForgetsEveryEntity ==
    \A a \in Actors :
        WasReset(a) =>
            /\ DestinationsNow(a) = {}
            /\ InNoCell(Grid, a)
            /\ \A c \in Connections : Out[c].done => a \notin Returned(c)

\* ------------------------------------------------------------------ C17
\* A step in which ResetGameWorldState made the graph forget an actor.
ResetStep ==
    \E a \in Actors : ActiveNetworkActors[a].active /\ ActiveNetworkActors'[a].life = "reset"

SelfVisible(cell) ==
    /\ cell \in DOMAIN PVSLookupTable
    /\ \E i \in 1 .. Len(PVSLookupTable[cell]) : PVSLookupTable[cell][i] = cell

\* C18: every cell that holds a tracked entity has a lookup-table entry that
\* lists the cell itself, and a gathered connection whose view target is
\* tracked received every entity listed in the view target's own cell.
C18_ViewerGathersOwnCell ==
    /\ \A a \in Actors :
            (DynamicSpatializedActors[a].tracked /\ IsValid(DynamicSpatializedActors[a].cell))
                => SelfVisible(DynamicSpatializedActors[a].cell)
    /\ \A c \in Connections :
            (/\ Out[c].done
             /\ ViewTargetOf(c) # NoActor
             /\ DynamicSpatializedActors[ViewTargetOf(c)].tracked)
                => LET cell == GridCellOf(WorldLocation[ViewTargetOf(c)])
                   IN  \A a \in Actors :
                            CellDyn(Grid, cell[1], cell[2])[a] > 0 => Out[c].pvs[a] > 0

\* ------------------------------------------------------------------ C19
\* The connection's view target is in a cell the lookup table has no entry for.
ViewerCellMissing(c) ==
    /\ ViewTargetOf(c) # NoActor
    /\ GridCellOf(WorldLocation[ViewTargetOf(c)]) \notin DOMAIN PVSLookupTable

\* C19: a gather for a connection whose viewer's cell has no lookup-table
\* entry returns no precomputed-visibility entity, touches no cell and raises
\* no fault; the table is what GenerateLookupTable built and no step changes it.
C19_MissingEntryGathersNothing ==
    [][/\ PVSLookupTable = GenerateLookupTable
       /\ PVSLookupTable' = PVSLookupTable
       /\ \A c \in Connections :
            (GatherStep(c) /\ ViewerCellMissing(c)) =>
                /\ Out'[c].pvs = EmptyBag
                /\ Grid' = Grid
                /\ fault' = fault
      ]_vars

\* A gather finished for a viewer whose character is listed in cell (7,0),
\* past the last key of the table, while another character is in cell (0,0).
C19_Witness ==
    /\ Running
    /\ \E c \in Connections :
            /\ Out[c].done
            /\ ViewerCellMissing(c)
            /\ DynamicSpatializedActors[ViewTargetOf(c)].tracked
            /\ DynamicSpatializedActors[ViewTargetOf(c)].cell = << 7, 0 >>
            /\ CellDyn(Grid, 7, 0)[ViewTargetOf(c)] > 0
            /\ Out[c].pvs = EmptyBag
            /\ \E a \in Actors \ { ViewTargetOf(c) } : CellDyn(Grid, 0, 0)[a] > 0

\* ------------------------------------------------------------------ C20
\* The policy the project settings give class c: AddClassRepInfo runs once per
\* settings entry, in array order, so the last entry for the class stands.
ConfiguredMapping(c) ==
    LET last == CHOOSE i \in DOMAIN ClassSettings :
                    /\ ClassSettings[i].cls = c
                    /\ \A j \in DOMAIN ClassSettings : ClassSettings[j].cls = c => j <= i
    IN  ClassSettings[last].mapping

\* C20: once InitGlobalActorClassSettings has run, every class the settings
\* give a policy has exactly that policy in the table and resolves to it, in
\* every later state, whatever its traits and ancestry.
C20_ConfiguredPolicyStands ==
    bClassSettingsInitialised =>
        \A c \in ConfiguredClasses :
            /\ c \in DOMAIN ClassRepNodePolicyMap
            /\ ClassRepNodePolicyMap[c] = ConfiguredMapping(c)
            /\ ResolvedPolicy(c) = ConfiguredMapping(c)

\* A replicated class of the character subtree was configured as always
\* relevant, went through the registration pass, and a child of it that was
\* loaded after startup has been resolved since.
C20_Witness ==
    /\ bClassSettingsInitialised
    /\ \E c \in ConfiguredClasses :
        /\ c \in AllReplicatedClasses
        /\ IsChildOf(c, CharacterClass)
        /\ GetClassNodeMapping(EmptyMap, c) = "PrecomputedVisibility"
        /\ ClassRepNodePolicyMap[c] = "RelevantAllConnections"
        /\ \E d \in Classes \ StartupClasses :
            /\ SuperClass[d] = c
            /\ d \in DOMAIN ClassRepNodePolicyMap
            /\ d \in DOMAIN ClassInfos

\* ------------------------------------------------------------------ C21
\* C21: every class that has no entry in the policy table and is not
\* replicated resolves to NotRouted, and so does the null class.
C21_NotReplicatedIsNotRouted ==
    /\ ResolvedPolicy(NoClass) = "NotRouted"
    /\ \A c \in Classes :
            (c \notin DOMAIN ClassRepNodePolicyMap /\ ~ ClassCDO[c].bReplicates)
                => ResolvedPolicy(c) = "NotRouted"

\* ------------------------------------------------------------------ C22
\* The policy the traits of a class default object stand for.
TraitsPolicy(cdo) ==
    IF ~ cdo.bAlwaysRelevant /\ ~ cdo.bOnlyRelevantToOwner /\ ~ cdo.bNetUseOwnerRelevancy
    THEN "Spatialize_Dynamic"
    ELSE IF cdo.bAlwaysRelevant /\ ~ cdo.bOnlyRelevantToOwner
    THEN "RelevantAllConnections"
    ELSE "NotRouted"

\* The resolution of class c gets as far as its own traits: c replicates, is
\* outside the character subtree and its traits differ from its parent's.
ComputedFromOwnTraits(c) ==
    /\ ClassCDO[c].bReplicates
    /\ ~ IsChildOf(c, CharacterClass)
    /\ ~ SameTraitsAsParent(c)

C23_StoredPolicyIsReturned ==
    /\ [](/\ \A c \in DOMAIN ClassRepNodePolicyMap :
                /\ ResolvedPolicy(c) = ClassRepNodePolicyMap[c]
                /\ RegisterClassRepNodeMapping(ClassRepNodePolicyMap, c) = ClassRepNodePolicyMap
                /\ ClassRepNodePoliciesGet(ClassRepNodePolicyMap, c) = ClassRepNodePolicyMap
          /\ \A c \in Classes :
                RegisterClassRepNodeMapping(RegisterClassRepNodeMapping(ClassRepNodePolicyMap, c), c)
                    = RegisterClassRepNodeMapping(ClassRepNodePolicyMap, c))
    /\ [][\A c \in DOMAIN ClassRepNodePolicyMap :
            /\ c \in DOMAIN ClassRepNodePolicyMap'
            /\ ClassRepNodePolicyMap'[c] = ClassRepNodePolicyMap[c]]_vars

\* A class whose stored policy is not the one its traits and ancestry give
\* was registered again by the lazy init function and kept the stored policy.
C23_Witness ==
    /\ bClassSettingsInitialised
    /\ \E c \in DOMAIN ClassRepNodePolicyMap :
        /\ c \notin AllReplicatedClasses
        /\ c \in DOMAIN ClassInfos
        /\ c # CharacterClass
        /\ ClassRepNodePolicyMap[c] # GetClassNodeMapping(EmptyMap, c)

\* ------------------------------------------------------------------ C24
SpatializePolicies == { "Spatialize_Static", "Spatialize_Dynamic", "Spatialize_Dormancy" }

\* The stored settings of class c were computed for c by
\* InitClassReplicationInfo (they are neither the character's settings nor an
\* ancestor's).
SettingsComputedFor(c) ==
    /\ c \in DOMAIN ClassInfos
    /\ ~ ClassInfos[c].bCharacterSettings
    /\ ClassInfos[c].PeriodOf = c

\* C24: the settings computed for a class take the cull distance from the
\* class's default object exactly when the class's policy is Spatialize_Static,
\* Spatialize_Dynamic or Spatialize_Dormancy, and keep the default cull
\* distance for every other policy.
C24_CullDistanceIffSpatializePolicy ==
    \A c \in Classes :
        SettingsComputedFor(c) =>
            /\ c \in DOMAIN ClassRepNodePolicyMap
            /\ ClassInfos[c].CullDistanceOf =
                    IF ClassRepNodePolicyMap[c] \in SpatializePolicies THEN c ELSE NoClass

\* ------------------------------------------------------------------ C25
\* The class tables as they are now.
CurrentClassTables == ClassTables(ClassRepNodePolicyMap, ExplicitlySetClasses, ClassInfos)
ExplicitClasses == { ExplicitlySetClasses[i] : i \in DOMAIN ExplicitlySetClasses }

\* C25: a member of ExplicitlySetClasses keeps the settings that were written
\* for it: RegisterClassReplicationInfo leaves the tables as they are for it
\* and no step, lazy initialisation included, changes its stored settings; for
\* every class, RegisterClassReplicationInfo applied twice gives the tables it
\* gives applied once.
C25_ExplicitSettingsAreKept ==
    /\ [](/\ \A c \in ExplicitClasses :
                /\ c \in DOMAIN ClassInfos
                /\ ClassInfos[c] = CharacterClassRepInfo
                /\ RegisterClassReplicationInfo(CurrentClassTables, c) = CurrentClassTables
          /\ \A c \in Classes :
                RegisterClassReplicationInfo(RegisterClassReplicationInfo(CurrentClassTables, c), c)
                    = RegisterClassReplicationInfo(CurrentClassTables, c))
    /\ [][\A c \in ExplicitClasses :
            /\ c \in DOMAIN ClassInfos'
            /\ ClassInfos'[c] = ClassInfos[c]]_vars

\* The character class is replicated and was seen by the startup pass, the
\* settings map it to a spatialized policy, and a class below it that was
\* loaded after startup has been initialised lazily; the character's settings
\* are still the ones written for it.
C25_Witness ==
    /\ bClassSettingsInitialised
    /\ CharacterClass \in ExplicitClasses
    /\ CharacterClass \in AllReplicatedClasses
    /\ CharacterClass \in ConfiguredClasses
    /\ ClassRepNodePolicyMap[CharacterClass] = "Spatialize_Dynamic"
    /\ ClassInfos[CharacterClass] = CharacterClassRepInfo
    /\ \E d \in Classes \ StartupClasses :
        /\ SuperClass[d] = CharacterClass
        /\ d \in DOMAIN ClassInfos

\* ------------------------------------------------------------------ C26
\* The levels in a connection's tracking list, and the levels whose lists a
\* gather appended.
TrackedLevels(c) ==
    { LevelsNeedingReplication[c][i] : i \in DOMAIN LevelsNeedingReplication[c] }
GatheredLevels(out) == { out.levels[i] : i \in DOMAIN out.levels }

\* C26: a connection tracks, and a gather for it appends, only lists of levels
\* the connection's client currently reports visible: a level the client never
\* reported, or reported no longer visible and not visible again since, is
\* not among the lists gathered for the connection.
C26_GatheredOnlyWhileVisible ==
    \A c \in Connections :
        /\ TrackedLevels(c) \subseteq ClientVisibleLevels[c]
        /\ Out[c].done => GatheredLevels(Out[c]) \subseteq ClientVisibleLevels[c]

\* In the second tick both connections were gathered: the first one no longer
\* sees a level whose list holds an actor and did not get the list, the second
\* one sees the level and got it.
C26_Witness ==
    /\ ReplicationFrameNum > 0
    /\ Out[1].done
    /\ Out[2].done
    /\ \E lvl \in DOMAIN AlwaysRelevantStreamingLevelActors :
        /\ AlwaysRelevantStreamingLevelActors[lvl] # {}
        /\ lvl \notin ClientVisibleLevels[1]
        /\ ClientVisibleLevels[1] # {}
        /\ lvl \notin GatheredLevels(Out[1])
        /\ lvl \in GatheredLevels(Out[2])

\* ------------------------------------------------------------------ C27
LevelsIn(list) == { list[i] : i \in DOMAIN list }

\* Level lvl has a non-empty list and every actor in it is dormant on c.
AllDormantOnConnection(c, lvl) ==
    /\ lvl \in DOMAIN AlwaysRelevantStreamingLevelActors
    /\ AlwaysRelevantStreamingLevelActors[lvl] # {}
    /\ AlwaysRelevantStreamingLevelActors[lvl] \subseteq DormantOnConnection[c]

\* Level lvl has a list with an actor that is not dormant on c.
SomeAwakeOnConnection(c, lvl) ==
    /\ lvl \in DOMAIN AlwaysRelevantStreamingLevelActors
    /\ AlwaysRelevantStreamingLevelActors[lvl] \ DormantOnConnection[c] # {}

\* C27: a gather that finds every actor of a tracked level's non-empty list
\* dormant on the connection drops the level from the tracking list and does
\* not append its list; a level that is not tracked is not gathered, and it
\* becomes tracked again only by the connection's next visibility report for
\* it; a gather for a tracked level with an actor awake on the connection
\* appends the list and keeps the level tracked.
C27_AllDormantLevelIsDropped ==
    [][\A c \in Connections, lvl \in Levels :
        /\ (GatherStep(c) /\ lvl \in TrackedLevels(c) /\ AllDormantOnConnection(c, lvl)) =>
                /\ lvl \notin LevelsIn(LevelsNeedingReplication'[c])
                /\ lvl \notin GatheredLevels(Out'[c])
        /\ (GatherStep(c) /\ lvl \notin TrackedLevels(c)) =>
                /\ lvl \notin LevelsIn(LevelsNeedingReplication'[c])
                /\ lvl \notin GatheredLevels(Out'[c])
        /\ (lvl \notin TrackedLevels(c) /\ lvl \in LevelsIn(LevelsNeedingReplication'[c])) =>
                /\ LevelsNeedingReplication'[c] = Append(LevelsNeedingReplication[c], lvl)
                /\ ClientVisibleLevels'[c] = ClientVisibleLevels[c] \cup { lvl }
                /\ phase = "idle"
        /\ (GatherStep(c) /\ lvl \in TrackedLevels(c) /\ SomeAwakeOnConnection(c, lvl)) =>
                /\ lvl \in LevelsIn(LevelsNeedingReplication'[c])
                /\ lvl \in GatheredLevels(Out'[c])
      ]_vars

\* The first gather for a connection found the only actor of a visible level
\* dormant: the level is visible but no longer tracked, and was not gathered,
\* while the other connection got the list.
C27_Witness ==
    /\ ReplicationFrameNum = 0
    /\ Out[1].done
    /\ Out[2].done
    /\ \E lvl \in Levels :
        /\ AllDormantOnConnection(1, lvl)
        /\ lvl \in ClientVisibleLevels[1]
        /\ lvl \notin TrackedLevels(1)
        /\ lvl \notin GatheredLevels(Out[1])
        /\ lvl \in GatheredLevels(Out[2])

CellCount(G, k, a) == CellDyn(G, k[1], k[2])[a]

\* A step of PrepareForReplication: it opens the gather, or ends the process.
PrepareStep ==
    /\ phase = "idle"
    /\ phase' = "gather" \/ fault'.at = "PrepareForReplication"

\* A tracked entity that PrepareForReplication has to place: it has no cached
\* cell yet, or its position is in another cell than the cached one.
NeedsNewCell(a) ==
    /\ Tracked(a)
    /\ \/ ~ IsValid(DynamicSpatializedActors[a].cell)
       \/ DynamicSpatializedActors[a].cell # GridCellOf(ActorLocation[a])

\* What the pass does to one entity: an entity to place leaves its old cell,
\* joins the new one and has the new cell cached; any other entity keeps its
\* cells and its cached cell.
PrepareEffect(a) ==
    LET info == DynamicSpatializedActors[a]
        new == GridCellOf(ActorLocation[a])
        keys == CellKeys(Grid) \cup CellKeys(Grid')
    IN  IF NeedsNewCell(a)
        THEN /\ DynamicSpatializedActors'[a] = [tracked |-> TRUE, cell |-> new]
             /\ \A k \in keys \cup { new } :
                   CellCount(Grid', k, a) =
                       CellCount(Grid, k, a)
                       - (IF k = info.cell /\ CellCount(Grid, k, a) > 0 THEN 1 ELSE 0)
                       + (IF k = new THEN 1 ELSE 0)
        ELSE /\ DynamicSpatializedActors'[a] = info
             /\ \A k \in keys : CellCount(Grid', k, a) = CellCount(Grid, k, a)

\* C29: PrepareForReplication of the PVS node changes cell membership only for
\* the tracked entities whose newly computed cell differs from the cached one
\* or that have no cached cell yet: each of them leaves its old cell, joins
\* the new one and has the new cell cached; the membership and the cached cell
\* of every other entity stay as they were.
C29_PrepareMovesOnlyChangedCells ==
    [][PrepareStep => \A a \in Actors : PrepareEffect(a)]_vars

\* ------------------------------------------------------------------ C30
\* C30: while a level is in a connection's visible set and the level's list
\* holds an actor that is not dormant on the connection, every gather for the
\* connection appends the level's list, also when the level's first actor was
\* spawned after the connection reported the level visible and after a gather
\* had run.
C30_VisibleLevelIsGathered ==
    [][\A c \in Connections, lvl \in Levels :
        (GatherStep(c) /\ lvl \in ClientVisibleLevels[c] /\ SomeAwakeOnConnection(c, lvl))
            => lvl \in GatheredLevels(Out'[c])
      ]_vars

\* ------------------------------------------------------------------ C31
\* Entity a is held by two different cells.
InTwoCells(G, a) ==
    \E k1, k2 \in CellKeys(G) :
        k1 # k2 /\ CellCount(G, k1, a) > 0 /\ CellCount(G, k2, a) > 0

\* C31: whatever the sequence of adds, moves, PrepareForReplication and
\* removes the PVS node sees, an add for an entity it already tracks
\* included, no entity is held by two cells at once, and once an entity was
\* removed no cell holds it.
C31_OneCellAndNoneAfterRemove ==
    \A a \in Actors :
        /\ ~ InTwoCells(Grid, a)
        /\ WasRemoved(a) => InNoCell(Grid, a)

\* ------------------------------------------------------------------ C32
InBounds(cell) == cell[1] >= 0 /\ cell[2] >= 0

\* C32: every index with which the dense grid is accessed is >= 0 on both
\* axes, for every entity and viewer position, also below the spatial bias:
\* PrepareForReplication never leaves the arrays with the cell it computes,
\* the cached cells RemoveActorInternal_Dynamic uses and the cells the gather
\* takes from the lookup table are in bounds.
C32_GridIndexInBounds ==
    /\ fault.at # "PrepareForReplication"
    /\ \A a \in Actors :
          (Tracked(a) /\ IsValid(DynamicSpatializedActors[a].cell))
              => InBounds(DynamicSpatializedActors[a].cell)
    /\ \A key \in DOMAIN PVSLookupTable :
          \A i \in DOMAIN PVSLookupTable[key] : InBounds(PVSLookupTable[key][i])

\* ------------------------------------------------------------------ C33
\* The player states in the lists a gather appended, and how many entries
\* the lists have together.
MembersOf(ls) ==
    { ps \in PlayerStateIds :
        \E i \in 1 .. Len(ls), j \in 1 .. NumPlayerStates : j <= Len(ls[i]) /\ ls[i][j] = ps }
RECURSIVE TotalLen(_)
TotalLen(ls) == IF ls = << >> THEN 0 ELSE Len(Head(ls)) + TotalLen(Tail(ls))

\* What the limiter hands out in tick f while the eligible player states and
\* their scan order are the ones of the current state.
OfferOf(lists, f) == LimiterGather(lists, LimiterForceList(ForceNetUpdate), f)
OfferInTick(f) == OfferOf(LimiterPrepare(ValidPlayerStates, TargetActorsPerFrame), f)

C34_GatherFindsAList ==
    /\ fault.at # "GatherActorListsForConnection"
    /\ phase = "gather" =>
          /\ Len(ReplicationActorLists) >= 1
          /\ (ReplicationFrameNum % Len(ReplicationActorLists)) + 1
                \in DOMAIN ReplicationActorLists

\* A tick after the first with no eligible player state left: the array holds
\* one empty list and a gather returned it.
C34_Witness ==
    /\ phase = "gather"
    /\ ReplicationFrameNum > 0
    /\ ValidPlayerStates = {}
    /\ ReplicationActorLists = << << >> >>
    /\ \E conn \in Connections : Out[conn].done /\ Out[conn].limiter = << << >> >>

\* ------------------------------------------------------------------ C35
\* C35: a gather appends the list of a streaming level at most once, also
\* when the client reported the level visible more than once without a
\* report in between that it is no longer visible; and after one such report
\* the level is not gathered, however many visibility reports preceded it.
C35_LevelGatheredAtMostOnce ==
    \A c \in Connections :
        Out[c].done =>
            /\ \A i, j \in DOMAIN Out[c].levels :
                  i # j => Out[c].levels[i] # Out[c].levels[j]
            /\ GatheredLevels(Out[c]) \subseteq ClientVisibleLevels[c]

\* ------------------------------------------------------------------ C36
\* C36: once the tick's PrepareForReplication has run, the cell the gather
\* computes for a connection whose view target the PVS node tracks is the
\* cell cached for the view target, and that cell holds the view target.
C36_ViewerCellIsCachedCell ==
    \A c \in Connections :
        (phase = "gather" /\ ViewTargetOf(c) # NoActor /\ Tracked(ViewTargetOf(c)))
            => LET cell == GridCellOf(WorldLocation[ViewTargetOf(c)])
               IN  /\ cell = DynamicSpatializedActors[ViewTargetOf(c)].cell
                   /\ CellCount(Grid, cell, ViewTargetOf(c)) > 0

\* The second tick: the first connection's pawn is tracked and cached in cell
\* (1,0) while the second connection's pawn is in another cell, and the first
\* connection was gathered.
C36_Witness ==
    /\ phase = "gather"
    /\ ReplicationFrameNum = 1
    /\ Out[1].done
    /\ ViewTargetOf(1) = 1 /\ Tracked(1)
    /\ DynamicSpatializedActors[1].cell = << 1, 0 >>
    /\ GridCellOf(WorldLocation[1]) = << 1, 0 >>
    /\ ViewTargetOf(2) = 2 /\ Tracked(2)
    /\ DynamicSpatializedActors[2].cell # << 1, 0 >>

\* ------------------------------------------------------------------ C37
\* The policy table when the second pass of InitGlobalActorClassSettings
\* starts, the first pass having seen the replicated classes in `order`.
PoliciesBeforeSecondPass(order) ==
    RegisterClassRepNodeMappings(AddClassRepInfos(ClassRepNodePolicyMap, ClassSettings, 1),
                                 order, 1)

\* C37: whenever ConditionalInitClassReplicationInfo reads a class's policy
\* with the checked lookup, the class has its entry in the policy table: in
\* the startup pass every class of the replicated-class list was registered
\* by the first pass, so the second pass adds no entry, and the lazy
\* initialisation registers the class before its settings are computed; the
\* check never fails.
C37_PolicyRegisteredBeforeRead ==
    [][/\ (~ bClassSettingsInitialised /\ bClassSettingsInitialised') =>
            /\ \A order \in Orders(AllReplicatedClasses) :
                  \A i \in DOMAIN order : order[i] \in DOMAIN PoliciesBeforeSecondPass(order)
            /\ \E order \in Orders(AllReplicatedClasses) :
                  ClassRepNodePolicyMap' = PoliciesBeforeSecondPass(order)
       /\ \A c \in Classes :
            (bClassSettingsInitialised /\ c \notin DOMAIN ClassInfos /\ c \in DOMAIN ClassInfos') =>
                /\ c \in DOMAIN RegisterClassRepNodeMapping(ClassRepNodePolicyMap, c)
                /\ ClassRepNodePolicyMap' = RegisterClassRepNodeMapping(ClassRepNodePolicyMap, c)
       /\ fault' = fault
      ]_vars

\* The startup pass registered and initialised two replicated classes that
\* the settings do not name, and a replicated class loaded later, which had
\* no policy entry, was initialised lazily.
C37_Witness ==
    /\ bClassSettingsInitialised
    /\ Cardinality(AllReplicatedClasses \ ConfiguredClasses) >= 2
    /\ \A c \in AllReplicatedClasses :
            c \in DOMAIN ClassRepNodePolicyMap
            /\ (~ IsExplicitlySet(ExplicitlySetClasses, c) => c \in DOMAIN ClassInfos)
    /\ \E d \in Classes \ StartupClasses :
        /\ ClassCDO[d].bReplicates
        /\ ~ IsExplicitlySet(ExplicitlySetClasses, d)
        /\ d \in DOMAIN ClassInfos
        /\ d \in DOMAIN ClassRepNodePolicyMap

\* ------------------------------------------------------------------ C38
\* Class c is given PrecomputedVisibility by the settings, or is a replicated
\* class with its parent's traits whose parent is given it in this way.
RECURSIVE InheritsConfiguredPVS(_)
InheritsConfiguredPVS(c) ==
    /\ c # NoClass
    /\ \/ c \in ConfiguredClasses /\ ConfiguredMapping(c) = "PrecomputedVisibility"
       \/ /\ c \notin ConfiguredClasses
          /\ ClassCDO[c].bReplicates
          /\ SameTraitsAsParent(c)
          /\ InheritsConfiguredPVS(SuperClass[c])

\* C38: the character class and every class that descends from it resolves,
\* while it has no entry in the policy table, to PrecomputedVisibility,
\* whatever its traits and its parent's policy; a class outside that subtree
\* resolves to PrecomputedVisibility only if the settings give it that policy
\* or it inherits the settings' entry of an ancestor with the same traits.
C38_CharacterSubtreeIsPVS ==
    \A c \in Classes :
        /\ (IsChildOf(c, CharacterClass) /\ c \notin DOMAIN ClassRepNodePolicyMap)
                => GetClassNodeMapping(ClassRepNodePolicyMap, c) = "PrecomputedVisibility"
        /\ (~ IsChildOf(c, CharacterClass)
            /\ GetClassNodeMapping(ClassRepNodePolicyMap, c) = "PrecomputedVisibility")
                => (bClassSettingsInitialised /\ InheritsConfiguredPVS(c))

\* The settings give a class outside the character subtree the policy, a
\* child with the same traits has inherited it into the table, and the
\* character class, which is not replicated and has no entry, resolves to it
\* below a parent with another policy.
C38_Witness ==
    /\ bClassSettingsInitialised
    /\ \E p \in ConfiguredClasses, c \in Classes :
        /\ ~ IsChildOf(p, CharacterClass)
        /\ ConfiguredMapping(p) = "PrecomputedVisibility"
        /\ SuperClass[c] = p
        /\ c \in DOMAIN ClassRepNodePolicyMap
        /\ ClassRepNodePolicyMap[c] = "PrecomputedVisibility"
    /\ ~ ClassCDO[CharacterClass].bReplicates
    /\ CharacterClass \notin DOMAIN ClassRepNodePolicyMap
    /\ GetClassNodeMapping(ClassRepNodePolicyMap, SuperClass[CharacterClass]) # "PrecomputedVisibility"
    /\ GetClassNodeMapping(ClassRepNodePolicyMap, CharacterClass) = "PrecomputedVisibility"

\* ------------------------------------------------------------------ C39
\* The number of classes above c in the hierarchy.
RECURSIVE DepthOf(_)
DepthOf(c) == IF c = NoClass \/ SuperClass[c] = NoClass THEN 0 ELSE 1 + DepthOf(SuperClass[c])

\* C39: every call of GetClassNodeMapping returns: an invocation calls itself
\* only for the strict parent of a class whose traits equal the parent's, so
\* the class looked at only moves up the hierarchy, and the call ends with
\* one of the six policies, the one the resolution of the class yields.
C39_ResolutionTerminates ==
    /\ [][\A c \in Classes :
            (Resolution.cur = c /\ Resolution'.cur # c /\ Resolution' # NoResolution
             /\ Resolution.result = Pending) =>
                /\ Resolution'.cur = SuperClass[c]
                /\ SuperClass[c] # NoClass
                /\ DepthOf(Resolution'.cur) < DepthOf(c)
                /\ ClassCDO[SuperClass[c]] = ClassCDO[c]
                /\ Resolution'.root = Resolution.root
                /\ Resolution'.result = Pending]_vars
    /\ [](Resolution # NoResolution /\ Resolution.result # Pending =>
            /\ Resolution.result \in ClassNodeMappings
            /\ Resolution.result = GetClassNodeMapping(ClassRepNodePolicyMap, Resolution.root))
    /\ (Resolution # NoResolution) ~> (Resolution # NoResolution /\ Resolution.result # Pending)

\* A call for a class below a parent with the same traits, both outside the
\* character subtree and without entries, has gone up to the parent and
\* returned the policy of the parent's traits.
C39_Witness ==
    /\ Resolution # NoResolution
    /\ DepthOf(Resolution.root) = 2
    /\ DepthOf(Resolution.cur) = 1
    /\ Resolution.root \notin DOMAIN ClassRepNodePolicyMap
    /\ Resolution.result = "Spatialize_Dynamic"
    /\ ClassCDO[Resolution.root] = ClassCDO[Resolution.cur]

=============================================================================
